---- MODULE Spec2Model ----
(***************************************************************************)
(* A model of the Property Definition Resolution Engine of                 *)
(* doc-generator/doc_formatter/doc_formatter.py (class DocFormatter):      *)
(* the profile filter and name ordering, the version-metadata merger, the  *)
(* reference resolver (extend_property_info) and the object descender.     *)
(*                                                                         *)
(* Encodings.                                                              *)
(*  - A Python str on which the code does string work (property names,     *)
(*    profile keys) is the sequence of its character codes.                *)
(*  - A Python dict whose keys are fixed words (a definition) is a TLA+    *)
(*    function on the keys that are present.                               *)
(*  - A Python dict whose key order the code iterates (a profile map) is   *)
(*    a sequence of [k, v] entries in insertion order.                     *)
(*  - An operation that can raise returns [err |-> <exception>, ...];      *)
(*    err = "" is a normal return.                                         *)
(* Every operation is a pure operator; an action draws nothing, it applies *)
(* the operator to the call that Init placed in the state.                 *)
(***************************************************************************)
EXTENDS Integers, Sequences, FiniteSets, TLC

VARIABLES
    config,             \* self.config, fixed for a run
    op,                 \* the method under call
    args,               \* its arguments
    pc,                 \* "call" before the method ran, "done" after
    ret,                \* what it returned (or the exception it raised)
    parsed,             \* what parse_property_info made of ret
    common_properties,  \* self.common_properties, the shared common-object pool
    warned              \* the references warnings.warn() was called for

vars == <<config, op, args, pc, ret, parsed, common_properties, warned>>

----------------------------------------------------------------------------
(* Bounds of the model.                                                    *)

\* longest list of requested property names
MaxNames == 3
\* nesting depth of the per-child metadata maps
MaxMetaDepth == 1

----------------------------------------------------------------------------
(* Python values.                                                          *)

\* the empty dict / an absent value
EmptyDict == <<>>

\* d with d[k] = v
Put(d, k, v) == [x \in (DOMAIN d) \cup {k} |-> IF x = k THEN v ELSE d[x]]

\* d with key k deleted
Del(d, k) == [x \in (DOMAIN d) \ {k} |-> d[x]]

\* the elements of a sequence
Range(s) == {s[i] : i \in DOMAIN s}

\* every sequence that lists the finite set S once: the orders in which
\* Python may iterate a set
Orderings(S) ==
    {s \in [1..Cardinality(S) -> S] : \A i, j \in 1..Cardinality(S) : s[i] = s[j] => i = j}

\* the sequences over S of length at most n
SeqsUpTo(S, n) == UNION {[1..k -> S] : k \in 0..n}

----------------------------------------------------------------------------
(* str: sequences of character codes.                                      *)

N_Status  == <<83,116,97,116,117,115>>      \* "Status"
N_Id      == <<73,100>>                     \* "Id"
N_id      == <<105,100>>                    \* "id"
N_Actions == <<65,99,116,105,111,110,115>>  \* "Actions"
N_name    == <<110,97,109,101>>             \* "name"
N_Reset   == <<82,101,115,101,116>>         \* "Reset"
N_TReset  == <<35,84,46,82,101,115,101,116>>  \* "#T.Reset"
N_UReset  == <<35,85,46,82,101,115,101,116>>  \* "#U.Reset"
N_odata_id   == <<64,111,100,97,116,97,46,105,100>>  \* "@odata.id"
N_at      == <<64>>                         \* "@"
N_Thing   == <<84,104,105,110,103>>           \* "Thing"
N_Resource == <<82,101,115,111,117,114,99,101>>  \* "Resource"
N_Chassis == <<67,104,97,115,115,105,115>>    \* "Chassis"
N_State   == <<83,116,97,116,101>>            \* "State"
N_Color   == <<67,111,108,111,114>>           \* "Color"
N_Alias   == <<65,108,105,97,115>>            \* "Alias"
N_Pair    == <<80,97,105,114>>                \* "Pair"
N_Mixed   == <<77,105,120,101,100>>           \* "Mixed"
N_Sub     == <<83,117,98>>                    \* "Sub"
N_Loop    == <<76,111,111,112>>               \* "Loop"
N_Parameters == <<80,97,114,97,109,101,116,101,114,115>>  \* "Parameters"
N_Missing == <<77,105,115,115,105,110,103>>   \* "Missing"
N_Either  == <<69,105,116,104,101,114>>       \* "Either"
N_idRef   == <<105,100,82,101,102>>           \* "idRef"
N_odata   == <<111,100,97,116,97>>            \* "odata"
N_ThingCollection ==
    <<84,104,105,110,103,67,111,108,108,101,99,116,105,111,110>>  \* "ThingCollection"
N_PropertyRequirements ==
    <<80,114,111,112,101,114,116,121,82,101,113,117,105,114,101,109,101,110,116,115>>
N_ActionRequirements ==
    <<65,99,116,105,111,110,82,101,113,117,105,114,101,109,101,110,116,115>>

\* str.lower on one character
lower_char(c) == IF c >= 65 /\ c <= 90 THEN c + 32 ELSE c

\* str.lower
str_lower(s) == [i \in 1..Len(s) |-> lower_char(s[i])]

\* a < b for two str, as Python orders them (by code point, a prefix first)
RECURSIVE str_lt(_, _)
str_lt(a, b) ==
    IF b = <<>> THEN FALSE
    ELSE IF a = <<>> THEN TRUE
    ELSE IF a[1] < b[1] THEN TRUE
    ELSE IF a[1] > b[1] THEN FALSE
    ELSE str_lt(Tail(a), Tail(b))

\* s.endswith(suffix)
str_endswith(s, suffix) ==
    /\ Len(suffix) <= Len(s)
    /\ SubSeq(s, Len(s) - Len(suffix) + 1, Len(s)) = suffix

\* s.startswith(prefix)
str_startswith(s, prefix) ==
    /\ Len(prefix) <= Len(s)
    /\ SubSeq(s, 1, Len(prefix)) = prefix

\* sub in s
str_contains(s, sub) ==
    \E i \in 0..(Len(s) - Len(sub)) : SubSeq(s, i + 1, i + Len(sub)) = sub

\* a sort key that keeps the case: names.sort() without key=str.lower
sort_key_with_case(x) == x

\* the key key=str.lower gives the sort
sort_key(x) == str_lower(x)

\* one step of list.sort: x goes before the first element whose key is
\* greater, so equal keys keep their order (the sort is stable)
RECURSIVE sort_insert(_, _)
sort_insert(x, s) ==
    IF s = <<>> THEN <<x>>
    ELSE IF str_lt(sort_key(x), sort_key(s[1])) THEN <<x>> \o s
    ELSE <<s[1]>> \o sort_insert(x, Tail(s))

\* names.sort(key=str.lower)
RECURSIVE list_sort(_)
list_sort(s) ==
    IF s = <<>> THEN <<>>
    ELSE sort_insert(s[Len(s)], list_sort(SubSeq(s, 1, Len(s) - 1)))

\* list(S) for a Python set S that iterates in hash_order
list_of_set(S, hash_order) == SelectSeq(hash_order, LAMBDA x : x \in S)

----------------------------------------------------------------------------
(* Profile maps: a dict the code iterates is a sequence of [k, v] entries, *)
(* v again such a dict.                                                    *)

\* d.keys() as a list
dict_keys(d) == [i \in 1..Len(d) |-> d[i].k]

\* k in d
dict_has(d, k) == \E i \in 1..Len(d) : d[i].k = k

\* d[k], for k in d
dict_at(d, k) == d[CHOOSE i \in 1..Len(d) : d[i].k = k].v

\* d.get(k, {})
dict_get(d, k) == IF dict_has(d, k) THEN dict_at(d, k) ELSE <<>>

\* profile is None / a profile map
NoProfile == [none |-> TRUE, d |-> <<>>]
Profile(d) == [none |-> FALSE, d |-> d]

----------------------------------------------------------------------------
(* Profile Filter: filter_props_by_profile, exclude_prop_names,            *)
(* exclude_annotations, organize_prop_names.                               *)

\* the action branch of filter_props_by_profile: for each profile key, the
\* requested name equal to it, else the first requested name ending in
\* "." + key
RECURSIVE action_filtered(_, _)
action_filtered(profile_props, prop_names) ==
    IF profile_props = <<>> THEN <<>>
    ELSE LET prop == profile_props[1]
             matches == SelectSeq(prop_names,
                                  LAMBDA x : str_endswith(x, <<46>> \o prop))
             kept == IF prop \in Range(prop_names) THEN <<prop>>
                     ELSE IF matches # <<>> THEN <<matches[1]>>
                     ELSE <<>>
         IN kept \o action_filtered(Tail(profile_props), prop_names)

\* terse_profile_props without the "Actions" entry of line 887-888
terse_profile_props_without_actions(profile, is_action) ==
    IF is_action THEN dict_keys(profile.d)
    ELSE dict_keys(dict_get(profile.d, N_PropertyRequirements))

\* the names the profile lists: profile_props of filter_props_by_profile
terse_profile_props(profile, is_action) ==
    LET base == IF is_action THEN dict_keys(profile.d)
                ELSE dict_keys(dict_get(profile.d, N_PropertyRequirements))
    IN IF dict_get(profile.d, N_ActionRequirements) # <<>>
       THEN Append(base, N_Actions)
       ELSE base

\* filter_props_by_profile(prop_names, profile, is_action); hash_order is
\* the order in which this run's Python iterates a set of names
filter_props_by_profile(prop_names, profile, is_action, hash_order) ==
    IF profile.none THEN <<>>
    ELSE IF config.profile_mode = "terse"
    THEN LET profile_props == terse_profile_props(profile, is_action)
         IN IF is_action
            THEN list_sort(action_filtered(profile_props, prop_names))
            ELSE list_sort(list_of_set(Range(prop_names) \cap Range(profile_props),
                                       hash_order))
    ELSE list_sort(prop_names)

\* exclude_prop_names(prop_names, props_to_exclude, props_to_exclude_by_match)
exclude_prop_names(prop_names, props_to_exclude, props_to_exclude_by_match) ==
    LET exact == SelectSeq(prop_names, LAMBDA x : x \notin Range(props_to_exclude))
        included_prop_names ==
            SelectSeq(exact,
                      LAMBDA x : ~ \E i \in 1..Len(props_to_exclude_by_match) :
                                     str_contains(x, props_to_exclude_by_match[i]))
    IN list_sort(included_prop_names)

\* exclude_annotations(prop_names)
exclude_annotations(prop_names) ==
    exclude_prop_names(prop_names, config.excluded_annotations,
                       config.excluded_annotations_by_match)

\* organize_prop_names(prop_names, profile)
organize_prop_names(prop_names, profile, hash_order) ==
    LET filtered == IF config.profile_mode # ""
                    THEN filter_props_by_profile(prop_names, profile, FALSE, hash_order)
                    ELSE prop_names
    IN list_sort(exclude_prop_names(filtered, config.excluded_properties,
                                    config.excluded_by_match))

----------------------------------------------------------------------------
(* Versions.  A version string is [sep, segs]: the segments between its    *)
(* separators, each the sequence of its decimal digits, and the separator: *)
(* "1.10.0" has sep ".", the "1_10_0" of a reference has sep "_".          *)

VString(sep, segs) == [sep |-> sep, segs |-> segs]

\* the empty string '' where a version is expected, and None
NoVer == VString("", <<>>)

V_1_2  == VString(".", <<(<<1>>), (<<2>>)>>)         \* "1.2"
V_1_10 == VString(".", <<(<<1>>), (<<1, 0>>)>>)      \* "1.10"

\* int(segment)
RECURSIVE seg_value(_)
seg_value(seg) ==
    IF seg = <<>> THEN 0
    ELSE 10 * seg_value(SubSeq(seg, 1, Len(seg) - 1)) + seg[Len(seg)]

\* the digits of all segments, in order
RECURSIVE all_digits(_)
all_digits(segs) ==
    IF segs = <<>> THEN <<>> ELSE segs[1] \o all_digits(Tail(segs))

\* version.split('.'): the segments of a dotted string; a string without a
\* dot is one segment
dotted_segments(version) ==
    IF version.sep = "." THEN version.segs ELSE <<all_digits(version.segs)>>

\* the i-th segment as a number, 0 past the end
seg_at(segs, i) == IF i <= Len(segs) THEN seg_value(segs[i]) ELSE 0

\* DocGenUtilities.compare_versions(version, context_version): +1 when
\* version is the newer, -1 when it is the older, 0 when they are the same;
\* segments compare as numbers, left to right, a missing segment as 0
RECURSIVE compare_from(_, _, _)
compare_from(version, context_version, i) ==
    IF i > Len(version) /\ i > Len(context_version) THEN 0
    ELSE IF seg_at(version, i) > seg_at(context_version, i) THEN 1
    ELSE IF seg_at(version, i) < seg_at(context_version, i) THEN -1
    ELSE compare_from(version, context_version, i + 1)

compare_versions(version, context_version) ==
    compare_from(dotted_segments(version), dotted_segments(context_version), 1)

----------------------------------------------------------------------------
(* Metadata Merger.  A metadata dict is [s, c]: s the entries whose value  *)
(* is not a dict (version, version_deprecated,                             *)
(* version_deprecated_explanation, unversioned, within_action), c the      *)
(* entries whose value is a dict: the per-child metadata, keyed by child   *)
(* name.  isinstance(val, dict) is membership in c.                        *)

Meta(s, c) == [s |-> s, c |-> c]
EmptyMeta == Meta(EmptyDict, EmptyDict)

\* bool(meta) of a metadata dict
meta_truthy(m) == DOMAIN m.s # {} \/ DOMAIN m.c # {}

\* meta.get('unversioned') is truthy
meta_unversioned(s) == "unversioned" \in DOMAIN s /\ s["unversioned"]

\* meta.get('version_deprecated_explanation', '')
meta_explanation(s) ==
    IF "version_deprecated_explanation" \in DOMAIN s
    THEN s["version_deprecated_explanation"] ELSE ""

\* merged_version keeping the newer of two versions instead of the older
merged_version_keeps_newer(s1, s2) ==
    IF "version" \in DOMAIN s1 /\ "version" \in DOMAIN s2
    THEN IF compare_versions(s1["version"], s2["version"]) < 0
         THEN Put(s1, "version", s2["version"])
         ELSE s1
    ELSE IF "version" \in DOMAIN s2
    THEN Put(s1, "version", s2["version"])
    ELSE s1

\* lines 1662-1668: the introduced version of meta1 after the merge
merged_version(s1, s2) ==
    IF "version" \in DOMAIN s1 /\ "version" \in DOMAIN s2
    THEN IF compare_versions(s1["version"], s2["version"]) > 0
         THEN Put(s1, "version", s2["version"])
         ELSE s1
    ELSE IF "version" \in DOMAIN s2
    THEN Put(s1, "version", s2["version"])
    ELSE s1

\* lines 1670-1689: the deprecation entries of meta1 after the merge
merged_deprecation(s1, s2) ==
    IF meta_unversioned(s1)
    THEN s1
    ELSE IF meta_unversioned(s2)
    THEN Put(Del(s1, "version_deprecated"),
             "version_deprecated_explanation", meta_explanation(s2))
    ELSE IF "version_deprecated" \in DOMAIN s1 /\ "version_deprecated" \in DOMAIN s2
    THEN IF compare_versions(s1["version_deprecated"], s2["version_deprecated"]) > 0
         THEN Put(s1, "version_deprecated", s2["version_deprecated"])
         ELSE s1
    ELSE IF "version_deprecated" \in DOMAIN s2
    THEN Put(Put(s1, "version_deprecated", s2["version_deprecated"]),
             "version_deprecated_explanation", meta_explanation(s2))
    ELSE s1

\* no child of meta2 is picked up
none_missed(looped, c2) == {}

\* lines 1695-1699: the children of meta2 that meta1 has not, or has empty
missed_items(looped, c2) ==
    {k \in DOMAIN c2 : ~ (k \in DOMAIN looped /\ meta_truthy(looped[k]))}

\* merge_full_metadata(meta_a, meta_b)
RECURSIVE merge_full_metadata(_, _)
merge_full_metadata(meta_a, meta_b) ==
    LET s1 == merged_deprecation(merged_version(meta_a.s, meta_b.s), meta_b.s)
        c1 == meta_a.c
        c2 == meta_b.c
        \* first loop: a child of meta1 that meta2 has, non-empty, is merged
        looped == [k \in DOMAIN c1 |->
                     IF k \in DOMAIN c2 /\ meta_truthy(c2[k])
                     THEN merge_full_metadata(c1[k], c2[k])
                     ELSE c1[k]]
        \* second loop: "just pick up the missed items"
        missed == missed_items(looped, c2)
    IN Meta(s1, [k \in (DOMAIN looped) \cup missed |->
                    IF k \in missed THEN c2[k] ELSE looped[k]])

\* merge_metadata(node_name, meta, context_meta)
merge_metadata(node_name, meta, context_meta) ==
    LET node_meta == IF node_name \in DOMAIN context_meta.c
                     THEN context_meta.c[node_name] ELSE EmptyMeta
    IN merge_full_metadata(meta, node_meta)

----------------------------------------------------------------------------
(* The configuration.                                                      *)

\* a config with nothing switched on.  local_overrides and
\* local_full_overrides are config['schema_supplement'][schema]['description
\* overrides'] and [...]['fulldescription overrides'], keyed by
\* <<schema name, property name>>; profile_resource_names are the keys of
\* config['profile']['Resources'].
DefaultConfig ==
    [profile_mode |-> "",
     excluded_properties |-> <<>>,
     excluded_by_match |-> <<>>,
     excluded_annotations |-> <<>>,
     excluded_annotations_by_match |-> <<>>,
     excluded_schemas |-> <<>>,
     excluded_schemas_by_match |-> <<>>,
     profile_resource_names |-> <<>>,
     profile_resources |-> EmptyDict,
     local_overrides |-> EmptyDict,
     local_full_overrides |-> EmptyDict,
     property_description_overrides |-> EmptyDict,
     property_fulldescription_overrides |-> EmptyDict,
     units_translation |-> EmptyDict,
     normative |-> FALSE,
     wants_common_objects |-> TRUE]

\* the values of config['profile_mode']: unset, normal, terse
ProfileModes == {"", "normal", "terse"}

\* the state around a call: nothing returned yet, an empty pool
Idle ==
    /\ pc = "call"
    /\ ret = <<>>
    /\ parsed = <<>>
    /\ common_properties = EmptyDict
    /\ warned = {}

----------------------------------------------------------------------------
(* Definitions.  A definition (prop_info) is a function on the keys it     *)
(* has; the key "ref" is the code's '$ref'.  Text values are strings,      *)
(* PyNone for None; a 'type' value is a str or a list, [kind, s, l];       *)
(* 'properties' is a dict in insertion order, a sequence of [k, v]; a      *)
(* reference string is [kind, schema, ver, frag]: the schema file it names *)
(* (none for a reference that starts with '#'), the version in the file    *)
(* name, and the definition name after '#/definitions/'.                   *)

\* d.get(k, default)
Get(d, k, default) == IF k \in DOMAIN d THEN d[k] ELSE default

\* None where a text is expected
PyNone == "<None>"

\* bool(text)
str_truthy(t) == t # "" /\ t # PyNone

\* a 'type' value: the str s, or the list l of type values
TStr(s) == [kind |-> "str", s |-> s, l |-> <<>>]
TList(l) == [kind |-> "list", s |-> "", l |-> l]
TNone == [kind |-> "none", s |-> "", l |-> <<>>]
T_null == TStr("null")
T_object == TStr("object")
T_string == TStr("string")
T_integer == TStr("integer")
T_array == TStr("array")

\* a reference string, None, and ''
Ref(schema, ver, frag) == [kind |-> "ref", schema |-> schema, ver |-> ver, frag |-> frag]
NoneRef == [kind |-> "none", schema |-> <<>>, ver |-> NoVer, frag |-> <<>>]
EmptyRef == [kind |-> "empty", schema |-> <<>>, ver |-> NoVer, frag |-> <<>>]

\* bool(ref)
ref_truthy(r) == r.kind = "ref"

\* a schema_ref: the reference to a schema file
SchemaRef(schema, ver) == Ref(schema, ver, <<>>)

\* prop_ref.startswith('#')
ref_is_local(r) == r.schema = <<>>

\* schema_ref + prop_ref, for a prop_ref that starts with '#'
ref_concat(schema_ref, prop_ref) == Ref(schema_ref.schema, schema_ref.ver, prop_ref.frag)

\* ref.endswith('#/definitions/idRef')
ref_is_idRef(r) == r.kind = "ref" /\ r.frag = N_idRef

\* the "1_10_0" of a file name
Ver(segs) == VString("_", segs)
Ver_1_0_0  == Ver(<<(<<1>>), (<<0>>), (<<0>>)>>)
Ver_1_9_0  == Ver(<<(<<1>>), (<<9>>), (<<0>>)>>)
Ver_1_10_0 == Ver(<<(<<1>>), (<<1, 0>>), (<<0>>)>>)

\* DocGenUtilities.make_unversioned_ref(ref): the reference without the
\* version of its file name; None for a reference that pins no version
make_unversioned_ref(ref) ==
    IF ref.kind = "ref" /\ ref.ver # NoVer THEN [ref EXCEPT !.ver = NoVer]
    ELSE NoneRef

\* DocGenUtilities.get_ref_version(ref): the version of the file name, as
\* written there ("1_10_0"); nothing (falsy) when the reference pins none
get_ref_version(ref) == IF ref.kind = "ref" THEN ref.ver ELSE NoVer

\* this_version.replace('_', '.')
replace_underscores(version) == [version EXCEPT !.sep = IF @ = "_" THEN "." ELSE @]

\* the keys carried from the referencing definition (self.parent_props)
parent_props ==
    {"description", "longDescription", "fulldescription_override", "pattern",
     "readonly", "prop_required", "prop_required_on_create", "required_parameter"}

\* the keys of a definition whose value is a text
TextKeys == {"description", "longDescription", "pattern", "units"}

\* bool(prop_info[x]) for a carried key x
prop_truthy(d, x) == IF x \in TextKeys THEN str_truthy(d[x]) ELSE d[x]

\* for x in src.keys(): if x in parent_props and src[x]: dst[x] = src[x]
carry_truthy_parent_props(src, dst) ==
    [x \in (DOMAIN dst) \cup {k \in (DOMAIN src) \cap parent_props : prop_truthy(src, k)} |->
        IF x \in (DOMAIN src) \cap parent_props /\ prop_truthy(src, x) THEN src[x] ELSE dst[x]]

\* for x in src.keys(): if x in parent_props: dst[x] = src[x]
carry_parent_props(src, dst) ==
    [x \in (DOMAIN dst) \cup ((DOMAIN src) \cap parent_props) |->
        IF x \in (DOMAIN src) \cap parent_props THEN src[x] ELSE dst[x]]

\* bool(type value)
type_truthy(t) == (t.kind = "str" /\ t.s # "") \/ (t.kind = "list" /\ t.l # <<>>)

\* a text put in add_link_text: the sentence t ("" is the empty str) and
\* what it is completed with: the names n and m and the version v
LinkText(t, n, m, v) == [t |-> t, n |-> n, m |-> m, v |-> v]
NoLinkText == LinkText("", <<>>, <<>>, NoVer)

\* {k: v}, a dict of one entry, and a child definition that is a string
Entry(k, v) == [k |-> k, v |-> v]
StringProp(k) == Entry(k, [type |-> T_string])

----------------------------------------------------------------------------
(* The Schema Index (self.traverser) and the corpus it serves.             *)

ThingSchema == SchemaRef(N_Thing, NoVer)
ChassisSchema == SchemaRef(N_Chassis, NoVer)
CollectionSchema == SchemaRef(N_ThingCollection, NoVer)

\* what find_ref_data adds to the definition it returns
Found(ref, from_schema_ref, prop_name, d) ==
    [_ref_uri |-> ref, _from_schema_ref |-> from_schema_ref,
     _prop_name |-> prop_name, _schema_name |-> from_schema_ref.schema] @@ d

\* the versions of Resource.json
ResourceVersions == {Ver_1_0_0, Ver_1_9_0, Ver_1_10_0}

\* how a version reads in a description
VersionText(v) ==
    IF v = Ver_1_0_0 THEN "1.0.0" ELSE IF v = Ver_1_9_0 THEN "1.9.0"
    ELSE IF v = Ver_1_10_0 THEN "1.10.0" ELSE "unversioned"

\* '#/definitions/<name>' in the caller's own schema
Local(name) == Ref(<<>>, NoVer, name)

\* the definitions of the corpus, by reference
CorpusDefinition(ref) ==
    CASE ref.schema = N_Resource /\ ref.frag = N_State ->
            \* a simple type, one definition per version
            [type |-> T_string, description |-> VersionText(ref.ver),
             _doc_generator_meta |-> Meta([version |-> replace_underscores(ref.ver)], EmptyDict)]
      [] ref.schema = N_Resource /\ ref.frag = N_Status ->
            \* an object of a schema that is not documented: a common object
            [type |-> T_object, description |-> VersionText(ref.ver),
             longDescription |-> "long", pattern |-> "p",
             properties |-> <<StringProp(N_State), StringProp(N_Id)>>]
      [] ref.schema = N_Resource /\ ref.frag = N_Sub ->
            \* a common object that has no unversioned definition
            [type |-> T_object, description |-> VersionText(ref.ver),
             properties |-> <<StringProp(N_Id)>>]
      [] ref.schema = N_Resource /\ ref.frag = N_Pair ->
            \* a common object with a property that is a common object
            [type |-> T_object, description |-> "Pair",
             properties |-> << Entry(N_Sub, [ref |-> Ref(N_Resource, Ver_1_9_0, N_Sub)]),
                               StringProp(N_Id) >>]
      [] ref.schema = N_Resource /\ ref.frag = N_Either ->
            \* itself a union, of two different targets
            [anyOf |-> << [ref |-> Ref(N_Resource, Ver_1_9_0, N_State)],
                          [ref |-> Ref(N_Chassis, NoVer, N_Chassis)] >>]
      [] ref.schema = N_Thing /\ ref.frag = N_Color ->
            [type |-> T_string, description |-> "Color", readonly |-> TRUE,
             _doc_generator_meta |-> Meta([version |-> V_1_2], EmptyDict)]
      [] ref.schema = N_Thing /\ ref.frag = N_Alias ->
            \* a reference to a reference
            [ref |-> Local(N_Color), description |-> "Alias"]
      [] ref.schema = N_Thing /\ ref.frag = N_Pair ->
            [anyOf |-> << [ref |-> Local(N_Color)], [ref |-> Local(N_Sub)] >>]
      [] ref.schema = N_Thing /\ ref.frag = N_Mixed ->
            [anyOf |-> << [type |-> T_string], [type |-> T_integer] >>]
      [] ref.schema = N_Thing /\ ref.frag = N_Loop ->
            \* a reference to itself
            [ref |-> Local(N_Loop)]
      [] ref.schema = N_Thing /\ ref.frag = N_Sub ->
            [type |-> T_object, description |-> "Sub",
             properties |-> <<StringProp(N_Id)>>]
      [] ref.schema = N_Thing /\ ref.frag = N_Thing ->
            [type |-> T_object, description |-> "Thing", required |-> <<N_Id>>,
             properties |->
                << Entry(N_Status, [ref |-> Ref(N_Resource, Ver_1_10_0, N_Status)]),
                   StringProp(N_name),
                   StringProp(N_Id),
                   Entry(N_Color, [ref |-> Local(N_Color)]),
                   StringProp(N_odata_id) >>]
      [] ref.schema = N_Chassis /\ ref.frag = N_Chassis ->
            [type |-> T_object, description |-> "Chassis",
             properties |-> <<StringProp(N_Id)>>]
      [] ref.schema = N_ThingCollection /\ ref.frag = N_ThingCollection ->
            [type |-> T_object, description |-> "Collection",
             properties |-> <<StringProp(N_name)>>]

\* the references the corpus defines
CorpusRefs ==
    { Ref(N_Resource, v, f) : v \in ResourceVersions, f \in {N_State} }
    \cup { Ref(N_Resource, v, N_Status) : v \in {Ver_1_0_0, Ver_1_10_0, NoVer} }
    \cup { Ref(N_Resource, v, N_Either) : v \in {Ver_1_0_0, Ver_1_10_0} }
    \cup { Ref(N_Resource, v, N_Sub) : v \in {Ver_1_0_0, Ver_1_9_0} }
    \cup { Ref(N_Resource, Ver_1_0_0, N_Pair) }
    \cup { Ref(N_Thing, NoVer, f) : f \in {N_Color, N_Alias, N_Pair, N_Mixed, N_Loop, N_Sub, N_Thing} }
    \cup { Ref(N_Chassis, NoVer, N_Chassis),
           Ref(N_ThingCollection, NoVer, N_ThingCollection) }

\* traverser.find_ref_data(ref): the definition and where it was found, or
\* nothing
RefData(found, info) == [found |-> found, info |-> info]

find_ref_data(ref) ==
    IF ref \in CorpusRefs
    THEN RefData(TRUE, Found(ref, SchemaRef(ref.schema, ref.ver), ref.frag,
                             CorpusDefinition(ref)))
    ELSE RefData(FALSE, EmptyDict)

\* traverser.get_schema_name(schema_ref)
get_schema_name(schema_ref) == schema_ref.schema

\* traverser.get_node_from_ref(prop_ref)
get_node_from_ref(prop_ref) == prop_ref.frag

\* traverser.is_collection_of(schema_ref): the schema whose resources the
\* collection holds, or None
is_collection_of(schema_ref) ==
    IF schema_ref.kind = "ref" /\ schema_ref.schema = N_ThingCollection
    THEN ThingSchema ELSE NoneRef

\* self.property_data: the schemas loaded, each with its name and the
\* properties of its main definition
SchemaDetails(ref) ==
    [schema_name |-> ref.frag,
     properties |-> CorpusDefinition(ref).properties,
     required |-> Get(CorpusDefinition(ref), "required", <<>>),
     required_on_create |-> Get(CorpusDefinition(ref), "requiredOnCreate", <<>>)]

property_data ==
    (ThingSchema :> SchemaDetails(Ref(N_Thing, NoVer, N_Thing)))
    @@ (ChassisSchema :> SchemaDetails(Ref(N_Chassis, NoVer, N_Chassis)))
    @@ (CollectionSchema :>
            SchemaDetails(Ref(N_ThingCollection, NoVer, N_ThingCollection)))

\* skip_schema(schema_name)
skip_schema(schema_name) ==
    IF config.profile_mode # "" /\ schema_name \in Range(config.profile_resource_names)
    THEN FALSE
    ELSE IF schema_name \in Range(config.excluded_schemas) THEN TRUE
    ELSE \E i \in 1..Len(config.excluded_schemas_by_match) :
            str_contains(schema_name, config.excluded_schemas_by_match[i])

\* self.documented_schemas, as __init__ computes it
documented_schemas ==
    { r \in DOMAIN property_data :
        ~ skip_schema(property_data[r].schema_name)
        /\ Len(property_data[r].properties) > 0 }

\* is_documented_schema(schema_ref)
is_documented_schema(schema_ref) == schema_ref \in documented_schemas

----------------------------------------------------------------------------
(* Override Applier.                                                       *)

\* apply_overrides(prop_info, schema_name, prop_name); an argument left out
\* (None) is the empty name
apply_overrides(prop_info, schema_name_arg, prop_name_arg) ==
    LET schema_name == IF schema_name_arg # <<>> THEN schema_name_arg
                       ELSE Get(prop_info, "_schema_name", <<>>)
        prop_name == IF prop_name_arg # <<>> THEN prop_name_arg
                     ELSE Get(prop_info, "_prop_name", <<>>)
        key == <<schema_name, prop_name>>
        described(d, text) == Put(Put(d, "description", text), "longDescription", text)
        p0 == Put(prop_info, "fulldescription_override", FALSE)
        in_local == key \in DOMAIN config.local_overrides
        in_local_full == key \in DOMAIN config.local_full_overrides
        l1 == IF in_local THEN described(p0, config.local_overrides[key]) ELSE p0
        l2 == IF in_local_full
              THEN Put(described(l1, config.local_full_overrides[key]),
                       "fulldescription_override", TRUE)
              ELSE l1
        g1 == IF prop_name \in DOMAIN config.property_description_overrides
              THEN described(p0, config.property_description_overrides[prop_name])
              ELSE p0
        g2 == IF prop_name \in DOMAIN config.property_fulldescription_overrides
              THEN Put(described(g1, config.property_fulldescription_overrides[prop_name]),
                       "fulldescription_override", TRUE)
              ELSE g1
        units == Get(g2, "units", PyNone)
        g3 == IF units \in DOMAIN config.units_translation
                 /\ str_truthy(config.units_translation[units])
              THEN Put(g2, "units", config.units_translation[units])
              ELSE g2
    IN IF in_local \/ in_local_full THEN l2 ELSE g3

\* process_for_idRef(ref): the definition of idRef, the built-in one when
\* the corpus has none; None for any other reference
BuiltinIdRef ==
    [properties |->
        << Entry(N_odata_id,
                 [type |-> T_string, readonly |-> TRUE,
                  description |-> "The unique identifier for a resource.",
                  longDescription |-> "shall be the unique identifier"]) >>]

process_for_idRef(ref) ==
    IF ref_is_idRef(ref)
    THEN LET data == find_ref_data(ref)
         IN RefData(TRUE, IF data.found THEN data.info ELSE BuiltinIdRef)
    ELSE RefData(FALSE, EmptyDict)


----------------------------------------------------------------------------
(* Reference Resolver: extend_property_info.                               *)

\* the depth of nested calls of extend_property_info at which Python gives
\* up with RecursionError
RecursionLimit == 6

\* which object the first element of a returned list is: none of the
\* argument's, or the one at 'path' in the argument, a path being the
\* indices into 'anyOf' lists (the empty path is the argument itself)
NoAlias == [is |-> FALSE, path |-> <<>>]
AliasAt(path) == [is |-> TRUE, path |-> path]

\* what a call of extend_property_info leaves: the exception it raised (""
\* when it returned), the list it returned, the common-object pool, the
\* references it warned about, and its argument prop_info afterwards
Extended(err, infos, common, warns, prop_info, alias) ==
    [err |-> err, infos |-> infos, common |-> common, warned |-> warns,
     prop_info |-> prop_info, alias |-> alias]

Raised(err, common, warns, prop_info) ==
    Extended(err, <<>>, common, warns, prop_info, NoAlias)

\* link_to_own_schema(schema_ref, schema_full_uri): the name of the schema
\* (every schema of the corpus has one); schema_full_uri is not used
link_to_own_schema(schema_ref) == get_schema_name(schema_ref)

\* lines 752-758 with link_to_common_property(ref_key): the sentence that
\* points to a common object, with the version asked for when there is one
common_property_text(ref_key, pool, specific_version) ==
    LET pooled == IF ref_key \in DOMAIN pool THEN pool[ref_key] ELSE EmptyDict
        named == Get(pooled, "_prop_name", <<>>) # <<>>
    IN LinkText(IF specific_version # NoVer
                THEN IF named THEN "See the {n} object (v{v}) for details on this property."
                     ELSE "See the {ref_key} (v{v}) for details on this property."
                ELSE IF named THEN "See the {n} object for details on this property."
                     ELSE "See the {ref_key} for details on this property.",
                IF named THEN pooled._prop_name ELSE ref_key.frag,
                <<>>, specific_version)

\* lines 630-638: the index of the first alternative that refers to idRef,
\* 0 when there is none
idRef_alternative(prop_anyof) ==
    LET hits == { i \in 1..Len(prop_anyof) :
                    "ref" \in DOMAIN prop_anyof[i] /\ ref_is_idRef(prop_anyof[i].ref) }
    IN IF hits = {} THEN 0 ELSE CHOOSE i \in hits : \A j \in hits : i <= j

\* lines 683-687: the reference of the first alternative that has one
first_ref(anyof) ==
    LET hits == { i \in 1..Len(anyof) : "ref" \in DOMAIN anyof[i] }
    IN IF hits = {} THEN NoneRef
       ELSE anyof[CHOOSE i \in hits : \A j \in hits : i <= j].ref

\* the referenced definition as it is, its properties included
ref_info_inlined(referenced, ref_info, append_ref, link_detail) == ref_info

\* lines 696-700 and 762-785: the definition that stands for a referenced
\* object: the descriptions of the object as referenced, the properties to
\* add of ref_info (the common object, where one took its place), the text
\* append_ref and, under link_detail, the one property '@odata.id'
new_ref_info(referenced, ref_info, append_ref, link_detail) ==
    LET ref_fulldescription_override ==
            Get(referenced, "fulldescription_override", FALSE)
        described == [description |-> Get(referenced, "description", PyNone),
                      longDescription |-> Get(referenced, "longDescription", PyNone),
                      fulldescription_override |-> ref_fulldescription_override,
                      pattern |-> Get(referenced, "pattern", PyNone)]
        \* props_to_add
        added == { x \in {"_prop_name", "_schema_name"} : Get(ref_info, x, <<>>) # <<>> }
                 \cup { x \in {"_from_schema_ref"} : ref_truthy(Get(ref_info, x, NoneRef)) }
                 \cup { x \in {"type"} : type_truthy(Get(ref_info, x, TNone)) }
                 \cup { x \in {"readonly"} : Get(ref_info, x, FALSE) }
        link_props == [type |-> T_string, readonly |-> TRUE, description |-> ""]
    IN [x \in (DOMAIN described) \cup added
              \cup (IF ref_fulldescription_override THEN {} ELSE {"add_link_text"})
              \cup (IF link_detail # NoLinkText THEN {"properties"} ELSE {}) |->
          IF x = "properties"
          THEN << Entry(N_odata_id,
                        IF ~ ref_fulldescription_override
                        THEN Put(link_props, "add_link_text", link_detail)
                        ELSE link_props) >>
          ELSE IF x = "add_link_text" THEN append_ref
          ELSE IF x \in added THEN ref_info[x]
          ELSE described[x]]

\* lines 737-742: the definition under the unversioned reference when there
\* is one, with its overrides, otherwise the referenced definition itself
common_info(ref_info, parent_info) ==
    IF parent_info.found THEN apply_overrides(parent_info.info, <<>>, <<>>)
    ELSE ref_info

\* lines 747-750: a common object that is shown is of type 'object'
typed_common(info) ==
    IF ~ skip_schema(Get(info, "_prop_name", <<>>)) /\ "type" \notin DOMAIN info
    THEN Put(info, "type", T_object)
    ELSE info

\* the pool with ref_info under ref_key, whatever was there
registered_anew(pool, ref_key, ref_info) == Put(pool, ref_key, ref_info)

\* lines 743-744: the pool takes ref_info under ref_key when it has nothing
\* under that key
registered(pool, ref_key, ref_info) ==
    IF ref_key \in DOMAIN pool THEN pool ELSE Put(pool, ref_key, ref_info)

\* lines 746-758: the common object ref_info is registered in the pool under
\* ref_key, and referred to when its schema is not skipped
common_reference(referenced, ref_info, ref_key, specific_version, pool) ==
    [ref_info |->
        new_ref_info(referenced, ref_info,
                     IF ~ skip_schema(Get(ref_info, "_prop_name", <<>>))
                     THEN common_property_text(
                              ref_key,
                              registered(pool, ref_key, ref_info),
                              specific_version)
                     ELSE NoLinkText,
                     NoLinkText),
     pool |-> registered(pool, ref_key, ref_info)]

\* lines 733-745: the key of a common object, and the definition it is
\* registered with
common_object(ref_info, unversioned_key, pool) ==
    common_reference(ref_info,
                     typed_common(common_info(ref_info,
                                              IF ref_truthy(unversioned_key)
                                              THEN find_ref_data(unversioned_key)
                                              ELSE RefData(FALSE, EmptyDict))),
                     IF ref_truthy(unversioned_key) THEN unversioned_key
                     ELSE ref_info._ref_uri,
                     get_ref_version(ref_info._ref_uri),
                     pool)

\* lines 706-785: what stands for a referenced object that is of another
\* schema, or is the schema's own main object: its description and a
\* pointer to where it is documented; a common object is registered in the
\* pool.  documented and collection are is_documented_schema and
\* is_collection_of of from_schema_ref.
described_reference(ref_info, prop_name, from_schema_ref, is_ref_to_same_schema, pool, documented, collection) ==
    IF ref_truthy(collection)
    THEN [ref_info |->
             new_ref_info(ref_info, ref_info,
                          LinkText("Contains a link to a resource.", <<>>, <<>>, NoVer),
                          LinkText("Link to Collection of {n}. See the {m} schema for details.",
                                   link_to_own_schema(collection),
                                   get_schema_name(collection), NoVer)),
          pool |-> pool]
    ELSE IF is_ref_to_same_schema
    THEN [ref_info |->
             new_ref_info(ref_info, ref_info, NoLinkText,
                          LinkText("Link to another {n} resource.", prop_name, <<>>,
                                   NoVer)),
          pool |-> pool]
    ELSE IF documented \/ ~ config.wants_common_objects
    THEN [ref_info |->
             new_ref_info(ref_info, ref_info,
                          LinkText("See the {n} schema for details on this property.",
                                   link_to_own_schema(from_schema_ref), <<>>, NoVer),
                          IF documented
                          THEN LinkText("Link to a {n} resource. See the Links section and the {m} schema for details.",
                                        prop_name, link_to_own_schema(from_schema_ref),
                                        NoVer)
                          ELSE NoLinkText),
          pool |-> pool]
    ELSE common_object(ref_info, make_unversioned_ref(ref_info._ref_uri), pool)

\* lines 695-785: what stands for the referenced definition ref_info: an
\* object of another schema, or the schema's own main object, is replaced
object_reference(ref_info, prop_name, from_schema_ref, is_other_schema, is_ref_to_same_schema, pool) ==
    IF Get(ref_info, "type", TNone) = T_object
       /\ (is_other_schema \/ is_ref_to_same_schema)
    THEN described_reference(ref_info, prop_name, from_schema_ref,
                             is_ref_to_same_schema, pool,
                             is_documented_schema(from_schema_ref),
                             is_collection_of(from_schema_ref))
    ELSE [ref_info |-> ref_info, pool |-> pool]

\* lines 787-794: prop_info with what the reference stands for, and with
\* the metadata meta
carried_reference(prop_info, meta, target) ==
    [prop_info |-> Put(carry_truthy_parent_props(prop_info, target.ref_info),
                       "_doc_generator_meta", meta),
     pool |-> target.pool]

\* lines 682-692: ref_info, or for a collection the definition of the idRef
\* that its first alternative refers to, with the overrides
overridden_reference(ref_info, from_schema_ref, anyof_ref) ==
    apply_overrides(IF ref_truthy(is_collection_of(from_schema_ref))
                       /\ ref_truthy(anyof_ref)
                       /\ ref_is_idRef(anyof_ref)
                    THEN process_for_idRef(anyof_ref).info
                    ELSE ref_info, <<>>, <<>>)

\* the metadata of the referencing definition merged with the referent's,
\* of whatever schema the referent is
reference_meta_merged(is_other_schema, prop_meta, ref_meta) ==
    merge_full_metadata(prop_meta, ref_meta)

\* lines 670-674: the metadata of the referencing definition, merged with
\* the referent's when the referent is not of another schema
reference_meta(is_other_schema, prop_meta, ref_meta) ==
    IF ~ is_other_schema THEN merge_full_metadata(prop_meta, ref_meta) ELSE prop_meta

\* lines 659-794: the definition a resolved reference stands for.  ref_info
\* is what find_ref_data returned for prop_ref.
resolved_reference(schema_ref, prop_info, context_meta, prop_ref, ref_info, pool) ==
    LET prop_meta == Get(prop_info, "_doc_generator_meta", EmptyMeta)
        from_schema_ref == Get(ref_info, "_from_schema_ref", NoneRef)
        is_other_schema ==
            /\ ref_truthy(from_schema_ref)
            /\ ~ (schema_ref = from_schema_ref
                  \/ schema_ref = make_unversioned_ref(from_schema_ref))
        prop_name == Get(ref_info, "_prop_name", <<>>)
    IN carried_reference(
           prop_info,
           merge_metadata(get_node_from_ref(prop_ref),
                          reference_meta(is_other_schema, prop_meta,
                                         Get(ref_info, "_doc_generator_meta", EmptyMeta)),
                          context_meta),
           object_reference(overridden_reference(ref_info, from_schema_ref,
                                                 first_ref(Get(ref_info, "anyOf", <<>>))),
                            prop_name, from_schema_ref, is_other_schema,
                            ~ is_other_schema /\ prop_name = get_schema_name(schema_ref),
                            pool))

\* a version as the text it is: the digits of its segments with a mark,
\* below every digit, between them
RECURSIVE version_text(_)
version_text(segs) ==
    IF segs = <<>> THEN <<>>
    ELSE IF Len(segs) = 1 THEN segs[1]
    ELSE segs[1] \o <<-1>> \o version_text(Tail(segs))

\* newer_version with the versions compared as texts
newer_version_as_text(latest_version, cleaned_version) ==
    IF str_lt(version_text(latest_version.segs), version_text(cleaned_version.segs))
    THEN cleaned_version
    ELSE latest_version

\* line 799 returning nothing for the reference that was not found
unresolved_skipped(prop_info) == <<>>

\* lines 861-862 returning nothing
unreferenced_dropped(prop_info) == <<>>

\* lines 830-832: the later of latest_version and cleaned_version
newer_version(latest_version, cleaned_version) ==
    IF compare_versions(latest_version, cleaned_version) < 0
    THEN cleaned_version
    ELSE latest_version

\* the state of the loop of lines 813-834; bound says whether
\* cleaned_version has been assigned, stop that the loop has been left
PickInit ==
    [match_ref |-> EmptyRef, unversioned_ref |-> EmptyRef, latest_ref |-> EmptyRef,
     latest_version |-> NoVer, bound |-> FALSE, cleaned_version |-> NoVer,
     refs_by_version |-> EmptyDict, stop |-> FALSE, err |-> ""]

\* lines 814-834: one turn of the loop, for the alternative elt
pick_step(st, elt) ==
    LET this_ref == Get(elt, "ref", NoneRef)
        this_version == get_ref_version(this_ref)
        versioned == ref_truthy(this_ref) /\ this_version # NoVer
        cleaned_version == IF versioned THEN replace_underscores(this_version)
                           ELSE st.cleaned_version
        unversioned_ref == IF ref_truthy(this_ref) THEN make_unversioned_ref(this_ref)
                           ELSE st.unversioned_ref
        seen == [st EXCEPT !.unversioned_ref = unversioned_ref,
                           !.cleaned_version = cleaned_version,
                           !.bound = @ \/ versioned,
                           !.refs_by_version =
                               IF versioned THEN Put(@, cleaned_version, this_ref) ELSE @]
        match_ref == IF ~ ref_truthy(st.match_ref) THEN unversioned_ref ELSE st.match_ref
    IN IF ref_truthy(this_ref) /\ ~ versioned
       THEN [seen EXCEPT !.stop = TRUE]
       ELSE IF ~ ref_truthy(st.latest_ref)
       THEN IF ~ seen.bound
            THEN [seen EXCEPT !.match_ref = match_ref, !.latest_ref = this_ref,
                              !.err = "UnboundLocalError", !.stop = TRUE]
            ELSE [seen EXCEPT !.match_ref = match_ref, !.latest_ref = this_ref,
                              !.latest_version = cleaned_version,
                              !.stop = (match_ref # unversioned_ref)]
       ELSE [seen EXCEPT !.match_ref = match_ref,
                         !.latest_version = newer_version(@, cleaned_version),
                         !.stop = (match_ref # unversioned_ref)]

\* lines 813-834: the loop over the alternatives
RECURSIVE pick_latest(_, _)
pick_latest(st, prop_anyof) ==
    IF prop_anyof = <<>> \/ st.stop THEN st
    ELSE pick_latest(pick_step(st, prop_anyof[1]), Tail(prop_anyof))

\* x.get('type') == 'null'
is_null_alternative(x) == Get(x, "type", TNone) = T_null

\* lines 855-859: the first element of a nullable union's result
marked_nullable(info) ==
    Put(Put(info, "nullable", TRUE), "type",
        IF type_truthy(Get(info, "type", TNone))
        THEN TList(<<info.type, T_null>>)
        ELSE T_null)

\* the definition d with the object at 'path' in it marked nullable
RECURSIVE marked_at(_, _)
marked_at(d, path) ==
    IF path = <<>> THEN marked_nullable(d)
    ELSE Put(d, "anyOf", [d.anyOf EXCEPT ![path[1]] = marked_at(@, Tail(path))])

\* line 799: what is returned for a reference that was not found
unresolved(prop_info) == <<prop_info>>

\* lines 861-862: what is returned for a definition that has neither a
\* reference nor alternatives
unreferenced(prop_info) == <<prop_info>>

RECURSIVE extend_property_info(_, _, _, _, _)
RECURSIVE extend_alternatives(_, _, _, _, _, _, _)

\* an alias one place further on in the list of alternatives
shifted(a) == IF a.is THEN AliasAt(<<a.path[1] + 1>> \o Tail(a.path)) ELSE a

\* lines 845-846: the loop passes over the null alternative elt; rest is
\* what it does with the alternatives after it
alternative_skipped(elt, rest) ==
    [rest EXCEPT !.elts = <<elt>> \o @, !.alias = shifted(@)]

\* line 851: the list gets what the call for the first of alts returned, r;
\* rest is what the loop does with the alternatives after it
alternative_joined(alts, r, rest) ==
    IF r.err # ""
    THEN [err |-> r.err, infos |-> <<>>, common |-> r.common, warned |-> r.warned,
          elts |-> <<r.prop_info>> \o Tail(alts), alias |-> NoAlias]
    ELSE [err |-> rest.err,
          infos |-> r.infos \o rest.infos,
          common |-> rest.common,
          warned |-> r.warned \cup rest.warned,
          elts |-> <<r.prop_info>> \o rest.elts,
          alias |-> IF r.infos # <<>>
                    THEN IF r.alias.is THEN AliasAt(<<1>> \o r.alias.path)
                         ELSE NoAlias
                    ELSE shifted(rest.alias)]

\* lines 843-851, after the call for the first of alts has left r: the loop
\* goes on with the pool that call left
alternative_extended(schema_ref, prop_info, alts, context_meta, depth, skip_null, r) ==
    alternative_joined(alts, r,
                       extend_alternatives(schema_ref, prop_info, Tail(alts),
                                           context_meta, r.common, depth, skip_null))

\* lines 843-851: the loop that resolves the alternatives alts, one after
\* the other.  Returns, with what the calls leave, the alternatives as the
\* loop leaves them and (alias) which of their objects the first element of
\* the collected list is.
extend_alternatives(schema_ref, prop_info, alts, context_meta, pool, depth, skip_null) ==
    IF alts = <<>>
    THEN [err |-> "", infos |-> <<>>, common |-> pool, warned |-> {},
          elts |-> <<>>, alias |-> NoAlias]
    ELSE IF skip_null /\ is_null_alternative(alts[1])
    THEN alternative_skipped(alts[1],
                             extend_alternatives(schema_ref, prop_info, Tail(alts),
                                                 context_meta, pool, depth, skip_null))
    ELSE alternative_extended(schema_ref, prop_info, alts, context_meta, depth,
                              skip_null,
                              extend_property_info(
                                  schema_ref,
                                  IF "ref" \in DOMAIN alts[1]
                                  THEN carry_parent_props(prop_info, alts[1])
                                  ELSE alts[1],
                                  context_meta, pool, depth + 1))

\* lines 853-859: the union's result, from what the loop over its
\* alternatives left (looped): the first element is marked nullable when
\* the union is.  prop_info is the argument of the call; collapses says
\* that the alternatives were replaced by one.
union_looped(prop_info, collapses, is_nullable, looped) ==
    LET left(elts) == IF collapses THEN prop_info ELSE Put(prop_info, "anyOf", elts)
        alias == IF collapses THEN NoAlias ELSE looped.alias
    IN IF looped.err # ""
       THEN Raised(looped.err, looped.common, looped.warned, left(looped.elts))
       ELSE IF ~ is_nullable
       THEN Extended("", looped.infos, looped.common, looped.warned,
                     left(looped.elts), alias)
       ELSE IF looped.infos = <<>>
       THEN Raised("IndexError", looped.common, looped.warned, left(looped.elts))
       ELSE Extended("",
                     <<marked_nullable(looped.infos[1])>> \o Tail(looped.infos),
                     looped.common, looped.warned,
                     IF alias.is
                     THEN left([looped.elts EXCEPT ![alias.path[1]] =
                                    marked_at(@, Tail(alias.path))])
                     ELSE left(looped.elts),
                     alias)

\* lines 836-859: the union after the loop of lines 813-834 has left picked
union_picked(schema_ref, prop_info, own, prop_anyof, context_meta, pool, depth, several, picked) ==
    LET skip_null == \E i \in 1..Len(prop_anyof) : "ref" \in DOMAIN prop_anyof[i]
        is_nullable == /\ skip_null
                       /\ \E i \in 1..Len(prop_anyof) : is_null_alternative(prop_anyof[i])
        collapses == several /\ picked.match_ref = picked.unversioned_ref
    IN IF picked.err # ""
       THEN Raised(picked.err, pool, {}, prop_info)
       ELSE IF collapses /\ picked.latest_version \notin DOMAIN picked.refs_by_version
       THEN Raised("KeyError", pool, {}, prop_info)
       ELSE union_looped(prop_info, collapses, is_nullable,
                         extend_alternatives(
                             schema_ref, own,
                             IF collapses
                             THEN << [ref |-> picked.refs_by_version[picked.latest_version]] >>
                             ELSE prop_anyof,
                             context_meta, pool, depth, skip_null))

\* lines 801-859: a union.  prop_info is the argument of the call, own the
\* definition the call works on, prop_anyof the argument's alternatives.
extend_union(schema_ref, prop_info, own, prop_anyof, context_meta, pool, depth) ==
    LET several == Len(SelectSeq(prop_anyof, LAMBDA x : ~ is_null_alternative(x))) > 1
    IN union_picked(schema_ref, prop_info, own, prop_anyof, context_meta, pool, depth,
                    several,
                    IF several THEN pick_latest(PickInit, prop_anyof) ELSE PickInit)

\* lines 795-797: the definition target.prop_info that stands for the
\* reference is returned, or resolved further when it has a reference or
\* alternatives itself
extend_resolved(schema_ref, prop_info, context_meta, depth, target) ==
    IF "ref" \in DOMAIN target.prop_info \/ "anyOf" \in DOMAIN target.prop_info
    THEN [extend_property_info(schema_ref, target.prop_info, context_meta,
                               target.pool, depth + 1)
            EXCEPT !.prop_info = prop_info, !.alias = NoAlias]
    ELSE Extended("", <<target.prop_info>>, target.pool, {}, prop_info, NoAlias)

\* lines 655-799: the reference prop_ref, for which find_ref_data returned
\* ref_info
extend_reference(schema_ref, prop_info, own, context_meta, pool, depth, prop_ref, ref_info) ==
    IF ~ ref_info.found
    THEN Extended("", unresolved(own), pool, {prop_ref}, prop_info, AliasAt(<<>>))
    ELSE extend_resolved(schema_ref, prop_info, context_meta, depth,
                         resolved_reference(schema_ref, own, context_meta, prop_ref,
                                            ref_info.info, pool))

\* lines 640-862: the definition with the reference given_ref and the
\* alternatives prop_anyof; idref_info is what process_for_idRef returned
\* for the reference
extend_given(schema_ref, prop_info, context_meta, pool, depth, prop_anyof, given_ref, idref_info) ==
    LET prop_ref == IF ~ ref_truthy(given_ref) THEN NoneRef
                    ELSE IF ref_is_local(given_ref) THEN ref_concat(schema_ref, given_ref)
                    ELSE IF idref_info.found THEN NoneRef
                    ELSE given_ref
        own == IF idref_info.found
               THEN carry_truthy_parent_props(prop_info, idref_info.info)
               ELSE prop_info
    IN IF ref_truthy(prop_ref)
       THEN extend_reference(schema_ref, prop_info, own, context_meta, pool, depth,
                             prop_ref, find_ref_data(prop_ref))
       ELSE IF prop_anyof # <<>>
       THEN extend_union(schema_ref, prop_info, own, prop_anyof, context_meta, pool, depth)
       ELSE Extended("", unreferenced(own), pool, {}, prop_info,
                     IF idref_info.found THEN NoAlias ELSE AliasAt(<<>>))

\* extend_property_info(schema_ref, prop_info, context_meta), called with
\* the pool 'pool' at nesting depth 'depth'
extend_property_info(schema_ref, prop_info, context_meta, pool, depth) ==
    IF depth > RecursionLimit
    THEN Raised("RecursionError", pool, {}, prop_info)
    ELSE
    LET anyof == Get(prop_info, "anyOf", <<>>)
        \* lines 630-638
        hit == idRef_alternative(anyof)
        given_ref == IF hit > 0 THEN anyof[hit].ref ELSE Get(prop_info, "ref", NoneRef)
    IN extend_given(schema_ref, prop_info, context_meta, pool, depth,
                    IF hit > 0 THEN <<>> ELSE anyof,
                    given_ref,
                    IF ref_truthy(given_ref) /\ ~ ref_is_local(given_ref)
                    THEN process_for_idRef(given_ref)
                    ELSE RefData(FALSE, EmptyDict))

----------------------------------------------------------------------------
(* Profile lookup and interpretation: get_prop_profile,                    *)
(* parse_property_info.                                                    *)

\* what get_prop_profile leaves: the exception raised, or None, or the
\* profile data d
Looked(err, none, d) == [err |-> err, none |-> none, d |-> d]

\* lines 1725-1733: the walk down prop_path from the requirements prop_reqs
RECURSIVE profile_walk(_, _, _)
profile_walk(prop_profile, prop_reqs, prop_path) ==
    IF prop_path = <<>> THEN Looked("", FALSE, prop_profile)
    ELSE IF prop_path[1] = <<>>
    THEN profile_walk(prop_profile, prop_reqs, Tail(prop_path))
    ELSE IF ~ dict_has(prop_reqs, prop_path[1]) THEN Looked("", TRUE, <<>>)
    ELSE LET found == dict_at(prop_reqs, prop_path[1])
         IN profile_walk(found,
                         IF dict_has(found, N_PropertyRequirements)
                         THEN dict_at(found, N_PropertyRequirements)
                         ELSE dict_get(found, N_Parameters),
                         Tail(prop_path))

\* the section as the caller named it, whatever the path
section_as_given(prop_path, section) == section

\* lines 1710-1711: a path that starts at Actions is looked up in the
\* ActionRequirements
profile_section(prop_path, section) ==
    IF prop_path[1] = N_Actions THEN N_ActionRequirements ELSE section

\* get_prop_profile(schema_ref, prop_path, section)
get_prop_profile(schema_ref, prop_path, section) ==
    IF prop_path = <<>> THEN Looked("IndexError", TRUE, <<>>)
    ELSE LET the_section == profile_section(prop_path, section)
             path == IF the_section = N_ActionRequirements /\ prop_path[1] = N_Actions
                     THEN Tail(prop_path) ELSE prop_path
             resources == config.profile_resources
         IN IF DOMAIN resources = {} THEN Looked("", TRUE, <<>>)
            ELSE IF schema_ref \notin DOMAIN resources THEN Looked("", TRUE, <<>>)
            ELSE IF ~ dict_has(resources[schema_ref], the_section)
            THEN Looked("", TRUE, <<>>)
            ELSE LET prop_reqs == dict_at(resources[schema_ref], the_section)
                 IN profile_walk(prop_reqs, prop_reqs, path)

\* the entries of a parsed record that the model follows: the exception
\* raised instead (""  when there is none), prop_type, nullable,
\* prop_is_object, prop_is_array, is_in_profile
Parsed(err, prop_type, nullable, prop_is_object, prop_is_array, is_in_profile) ==
    [err |-> err, prop_type |-> prop_type, nullable |-> nullable,
     prop_is_object |-> prop_is_object, prop_is_array |-> prop_is_array,
     is_in_profile |-> is_in_profile]

\* prop_name.split('.')[-1]: what follows the last '.'
RECURSIVE after_last_dot(_)
after_last_dot(s) ==
    IF \A i \in 1..Len(s) : s[i] # 46 THEN s
    ELSE after_last_dot(Tail(s))

\* lines 1113-1125 and 1003-1011: the profile of the property, None when
\* no profile is looked up
profile_of(schema_ref, prop_name, prop_path, within_action, single) ==
    IF config.profile_mode # "" /\ prop_name # <<>>
    THEN get_prop_profile(schema_ref,
                          Append(prop_path,
                                 IF single /\ within_action /\ str_startswith(prop_name, <<35>>)
                                 THEN after_last_dot(prop_name)
                                 ELSE prop_name),
                          IF within_action THEN N_ActionRequirements
                          ELSE N_PropertyRequirements)
    ELSE Looked("", TRUE, <<>>)

\* _parse_single_property_info(schema_ref, prop_name, prop_info, prop_path,
\* within_action): lines 1096-1152 and 1337-1384, the type and the null
\* taken out of it
parse_single_property_info(schema_ref, prop_name, prop_info, prop_path, within_action) ==
    LET given == Get(prop_info, "type", TList(<<>>))
        profile == profile_of(schema_ref, prop_name, prop_path, within_action, TRUE)
        prop_type == IF given.kind = "list" THEN given.l ELSE <<given>>
        prop_is_object == IF given.kind = "list" THEN T_object \in Range(given.l)
                          ELSE given = T_object
        prop_is_array == IF given.kind = "list" THEN T_array \in Range(given.l)
                         ELSE given = T_array
        cleaned_prop_type == SelectSeq(prop_type, LAMBDA pt : pt # T_null)
        has_null == T_null \in Range(prop_type)
    IN IF profile.err # ""
       THEN Parsed(profile.err, <<>>, FALSE, FALSE, FALSE, FALSE)
       ELSE Parsed("", cleaned_prop_type, has_null, prop_is_object, prop_is_array,
                   ~ profile.none)

\* lines 1031-1042: values, each once, in the order met
RECURSIVE uniquified(_)
uniquified(values) ==
    IF values = <<>> THEN <<>>
    ELSE LET before == uniquified(SubSeq(values, 1, Len(values) - 1))
             val == values[Len(values)]
         IN IF val \in Range(before) THEN before ELSE Append(before, val)

\* the prop_type lists of the details, one after the other
RECURSIVE all_prop_types(_)
all_prop_types(details) ==
    IF details = <<>> THEN <<>>
    ELSE details[1].prop_type \o all_prop_types(Tail(details))

\* parse_property_info(schema_ref, prop_name, prop_infos, prop_path,
\* within_action), for a list prop_infos of definitions
parse_property_info(schema_ref, prop_name, prop_infos, prop_path, within_action) ==
    IF Len(prop_infos) = 1
    THEN parse_single_property_info(schema_ref, prop_name, prop_infos[1], prop_path,
                                    within_action)
    ELSE
    LET profile == profile_of(schema_ref, prop_name, prop_path, within_action, FALSE)
        anyof_details == [i \in 1..Len(prop_infos) |->
                            parse_single_property_info(schema_ref, prop_name, prop_infos[i],
                                                       prop_path, within_action)]
        null_only(det) == Len(det.prop_type) = 1 /\ T_null \in Range(det.prop_type)
        details == SelectSeq(anyof_details, LAMBDA det : ~ null_only(det))
        has_null == \E i \in 1..Len(anyof_details) : null_only(anyof_details[i])
        failed == { i \in 1..Len(anyof_details) : anyof_details[i].err # "" }
    IN IF profile.err # ""
       THEN Parsed(profile.err, <<>>, FALSE, FALSE, FALSE, FALSE)
       ELSE IF failed # {}
       THEN Parsed(anyof_details[CHOOSE i \in failed : \A j \in failed : i <= j].err,
                   <<>>, FALSE, FALSE, FALSE, FALSE)
       ELSE IF details = <<>>
       THEN Parsed("IndexError", <<>>, FALSE, FALSE, FALSE, FALSE)
       ELSE IF ~ profile.none
       THEN \* line 1075: profile_conditional_details is None
            Parsed("AttributeError", <<>>, FALSE, FALSE, FALSE, FALSE)
       ELSE Parsed("", uniquified(all_prop_types(anyof_details)), has_null,
                   FALSE, FALSE, FALSE)

----------------------------------------------------------------------------
(* Object Descender: format_object_descr, and the property rows of         *)
(* generate_output.                                                        *)

\* d[k] = v for a dict in insertion order
dict_set(d, k, v) ==
    IF dict_has(d, k)
    THEN [i \in 1..Len(d) |-> IF d[i].k = k THEN Entry(k, v) ELSE d[i]]
    ELSE Append(d, Entry(k, v))

\* format_property_row(schema_ref, prop_name, prop_info, prop_path), which
\* the formatters deriving from this class supply: the row of the property
format_property_row(schema_ref, prop_name, prop_infos, prop_path) ==
    [row |-> [name |-> prop_name, prop_infos |-> prop_infos, prop_path |-> prop_path]]

\* the names of the rows
row_names(rows) == [i \in 1..Len(rows) |-> rows[i].name]

\* what the loop over the property names leaves: the exception raised, the
\* rows, the properties as written to, the pool, the references warned about
Rows(err, rows, properties, pool, warns) ==
    [err |-> err, rows |-> rows, properties |-> properties, common |-> pool,
     warned |-> warns]

\* the rows of a loop: the row of its first name, with the references warned
\* about for it, before what the loop leaves for the names after it
rows_joined(row, warns, rest) ==
    Rows(rest.err,
         IF rest.err = "" THEN <<row>> \o rest.rows ELSE <<>>,
         rest.properties, rest.common, warns \cup rest.warned)

\* lines 1489-1498: the list that extend_property_info returned, its first
\* element with the metadata merged with meta and marked within_action, and
\* for an action without its properties
detail_info(infos, meta, is_action) ==
    << Put(IF is_action THEN Put(infos[1], "properties", <<>>) ELSE infos[1],
           "_doc_generator_meta",
           [merge_full_metadata(Get(infos[1], "_doc_generator_meta", EmptyMeta), meta)
              EXCEPT !.s = Put(@, "within_action", is_action)]) >>
    \o Tail(infos)

RECURSIVE object_rows(_, _, _, _)

\* lines 1487-1506 for the first of prop_names, after the call of
\* extend_property_info has left r: its row, and the loop over the names
\* after it
object_row(c, properties, prop_names, meta, r) ==
    IF r.err # "" THEN Rows(r.err, <<>>, properties, r.common, r.warned)
    ELSE IF r.infos = <<>>
    THEN Rows("IndexError", <<>>, properties, r.common, r.warned)
    ELSE rows_joined(format_property_row(c.schema_ref, prop_names[1],
                                         detail_info(r.infos, meta, c.is_action),
                                         c.prop_path).row,
                     r.warned,
                     object_rows(c, properties, Tail(prop_names), r.common))

\* lines 1485-1487 for the first of prop_names: the definition
\* base_detail_info, with its overrides, is resolved under the metadata meta
object_detail(c, properties, prop_names, pool, base_detail_info, meta) ==
    object_row(c, properties, prop_names, meta,
               extend_property_info(c.schema_ref, base_detail_info, meta, pool, 1))

\* lines 1478-1486 for the first of prop_names: base_detail_info is the
\* definition of the property with its overrides
object_property(c, properties, prop_names, pool, base_detail_info) ==
    object_detail(c, properties, prop_names, pool, base_detail_info,
                  merge_metadata(prop_names[1],
                                 Get(base_detail_info, "_doc_generator_meta", EmptyMeta),
                                 c.context_meta))

\* lines 1476-1506: the loop over prop_names.  c holds what the loop reads:
\* schema_ref, schema_name, parent_requires, parent_requires_on_create,
\* context_meta, prop_path, is_action.
object_rows(c, properties, prop_names, pool) ==
    IF prop_names = <<>> THEN Rows("", <<>>, properties, pool, {})
    ELSE
    LET prop_name == prop_names[1]
        required == Put(Put(dict_at(properties, prop_name),
                            "prop_required", prop_name \in Range(c.parent_requires)),
                        "prop_required_on_create",
                        prop_name \in Range(c.parent_requires_on_create))
    IN object_property(c, dict_set(properties, prop_name, required), prop_names, pool,
                       apply_overrides(required, c.schema_name, prop_name))

\* what format_object_descr leaves: the exception raised, the rows
\* returned, prop_info as written to, the pool, the references warned about
Described(err, rows, prop_info, pool, warns) ==
    [err |-> err, rows |-> rows, prop_info |-> prop_info, common |-> pool,
     warned |-> warns]

\* lines 1474-1516: what the loop over the property names left (looped) is
\* what format_object_descr leaves
object_described(prop_info, looped) ==
    Described(looped.err, looped.rows,
              Put(prop_info, "properties", looped.properties),
              looped.common, looped.warned)

\* lines 1462-1516: the properties in_profile, those that the profile
\* admits, are described
object_in_profile(schema_ref, prop_info, prop_path, is_action, pool, properties, in_profile) ==
    object_described(
        prop_info,
        object_rows([schema_ref |-> schema_ref,
                     schema_name |-> get_schema_name(schema_ref),
                     parent_requires |-> Get(prop_info, "parent_requires", <<>>),
                     parent_requires_on_create |->
                         Get(prop_info, "parent_requires_on_create", <<>>),
                     context_meta |-> Get(prop_info, "_doc_generator_meta", EmptyMeta),
                     prop_path |-> prop_path,
                     is_action |-> is_action],
                    IF config.profile_mode = "terse"
                    THEN [i \in 1..Len(in_profile) |->
                            Entry(in_profile[i], dict_at(properties, in_profile[i]))]
                    ELSE properties,
                    IF is_action
                    THEN SelectSeq(in_profile, LAMBDA x : str_startswith(x, <<35>>))
                    ELSE in_profile,
                    pool))

\* lines 1455-1516: the properties of prop_info, with the profile that
\* get_prop_profile returned for prop_path
object_profiled(schema_ref, prop_info, prop_path, is_action, hash_order, pool, properties, profile) ==
    IF config.profile_mode = "terse" /\ profile.err # ""
    THEN Described(profile.err, <<>>, prop_info, pool, {})
    ELSE object_in_profile(schema_ref, prop_info, prop_path, is_action, pool, properties,
                           IF config.profile_mode = "terse"
                           THEN filter_props_by_profile(
                                    exclude_annotations(dict_keys(properties)),
                                    profile, is_action, hash_order)
                           ELSE exclude_annotations(dict_keys(properties)))

\* lines 1449-1516: the object prop_info of schema from_schema_ref
object_of_schema(from_schema_ref, prop_info, prop_path, is_action, hash_order, pool, properties) ==
    IF properties = <<>> THEN Described("", <<>>, prop_info, pool, {})
    ELSE object_profiled(from_schema_ref, prop_info, prop_path, is_action, hash_order,
                         pool, properties,
                         IF config.profile_mode = "terse"
                         THEN get_prop_profile(
                                  from_schema_ref, prop_path,
                                  IF prop_path # <<>> /\ prop_path[1] = N_Actions
                                  THEN N_ActionRequirements
                                  ELSE N_PropertyRequirements)
                         ELSE Looked("", TRUE, <<>>))

\* format_object_descr(schema_ref, prop_info, prop_path, is_action)
format_object_descr(schema_ref, prop_info, prop_path, is_action, hash_order, pool) ==
    object_of_schema(Get(prop_info, "_from_schema_ref", schema_ref), prop_info,
                     prop_path, is_action, hash_order, pool,
                     Get(prop_info, "properties", <<>>))

RECURSIVE schema_rows(_, _, _, _)

\* lines 396-398 for the first of prop_names, after the call of
\* extend_property_info has left r: its row, and the loop over the names
\* after it
schema_row(c, properties, prop_names, r) ==
    IF r.err # ""
    THEN Rows(r.err, <<>>, dict_set(properties, prop_names[1], r.prop_info),
              r.common, r.warned)
    ELSE rows_joined(format_property_row(c.schema_ref, prop_names[1], r.infos, <<>>).row,
                     r.warned,
                     schema_rows(c, dict_set(properties, prop_names[1], r.prop_info),
                                 Tail(prop_names), r.common))

\* lines 386-398 of generate_output: the loop over the property names of a
\* schema; c holds schema_ref, required, required_on_create
schema_rows(c, properties, prop_names, pool) ==
    IF prop_names = <<>> THEN Rows("", <<>>, properties, pool, {})
    ELSE
    LET prop_name == prop_names[1]
        given == dict_at(properties, prop_name)
    IN schema_row(c, properties, prop_names,
                  extend_property_info(
                      c.schema_ref,
                      [prop_required |-> prop_name \in Range(c.required),
                       prop_required_on_create |->
                           prop_name \in Range(c.required_on_create),
                       parent_requires |-> c.required,
                       parent_requires_on_create |-> c.required_on_create,
                       required_parameter |-> Get(given, "requiredParameter", FALSE)]
                      @@ given,
                      EmptyMeta, pool, 1))

\* the order in which property_data lists its schemas
SchemaOrder == <<ThingSchema, ChassisSchema, CollectionSchema>>

\* lines 318-319: the documented schemas, sorted
schema_keys ==
    LET names == list_sort(SelectSeq([i \in 1..Len(SchemaOrder) |->
                                         get_schema_name(SchemaOrder[i])],
                                     LAMBDA n : \E r \in documented_schemas :
                                                    get_schema_name(r) = n))
    IN [i \in 1..Len(names) |->
          CHOOSE r \in documented_schemas : get_schema_name(r) = names[i]]

RECURSIVE schema_sections(_, _, _)

\* the section of the first of schema_refs, whose rows looped holds, before
\* the sections of the schemas after it
section_joined(schema_ref, looped, rest) ==
    [err |-> rest.err,
     sections |-> IF rest.err = ""
                  THEN << [schema_ref |-> schema_ref, rows |-> looped.rows,
                           properties |-> looped.properties] >>
                       \o rest.sections
                  ELSE <<>>,
     common |-> rest.common,
     warned |-> looped.warned \cup rest.warned]

\* lines 386-426 for the first of schema_refs, after the loop over its
\* property names has left looped
schema_section(schema_refs, hash_order, looped) ==
    IF looped.err # ""
    THEN [err |-> looped.err, sections |-> <<>>, common |-> looped.common,
          warned |-> looped.warned]
    ELSE section_joined(schema_refs[1], looped,
                        schema_sections(Tail(schema_refs), hash_order, looped.common))

\* lines 321-398 for the first of schema_refs, whose entry of property_data
\* is details
schema_details(schema_refs, hash_order, pool, details) ==
    schema_section(
        schema_refs, hash_order,
        schema_rows([schema_ref |-> schema_refs[1],
                     required |-> details.required,
                     required_on_create |-> details.required_on_create],
                    details.properties,
                    organize_prop_names(
                        dict_keys(details.properties),
                        Profile(IF schema_refs[1] \in DOMAIN config.profile_resources
                                THEN config.profile_resources[schema_refs[1]]
                                ELSE <<>>),
                        hash_order),
                    pool))

\* lines 321-426 of generate_output: the sections of the schemas in
\* schema_refs, each with the rows of its properties
schema_sections(schema_refs, hash_order, pool) ==
    IF schema_refs = <<>>
    THEN [err |-> "", sections |-> <<>>, common |-> pool, warned |-> {}]
    ELSE schema_details(schema_refs, hash_order, pool, property_data[schema_refs[1]])

\* generate_output(): the sections and their rows
generate_output(hash_order, pool) == schema_sections(schema_keys, hash_order, pool)
----------------------------------------------------------------------------
(* What _parse_single_property_info leaves of the profile it reads.        *)

N_ConditionalRequirements ==
    <<67, 111, 110, 100, 105, 116, 105, 111, 110, 97, 108, 82, 101, 113, 117, 105,
      114, 101, 109, 101, 110, 116, 115>>
N_ReadRequirement ==
    <<82, 101, 97, 100, 82, 101, 113, 117, 105, 114, 101, 109, 101, 110, 116>>
N_WriteRequirement ==
    <<87, 114, 105, 116, 101, 82, 101, 113, 117, 105, 114, 101, 109, 101, 110, 116>>

\* profile.get(k), None when profile has no k
requirement_of(profile, k) == IF dict_has(profile, k) THEN dict_at(profile, k) ELSE PyNone

\* the profile as it is, nothing inserted
profile_only_read(profile) == profile

\* lines 1322-1328: the conditional requirements of the profile get, in
\* front, a base requirement made of its read and write requirements; the
\* list is the profile's own
with_base_requirement(profile) ==
    IF dict_has(profile, N_ConditionalRequirements)
       /\ dict_at(profile, N_ConditionalRequirements) # <<>>
    THEN dict_set(profile, N_ConditionalRequirements,
                  << [BaseRequirement |-> TRUE,
                      ReadRequirement |-> requirement_of(profile, N_ReadRequirement),
                      WriteRequirement |-> requirement_of(profile, N_WriteRequirement)] >>
                  \o dict_at(profile, N_ConditionalRequirements))
    ELSE profile

\* line 1733: the requirements nested in the requirement object found
nested_requirements(found) ==
    IF dict_has(found, N_PropertyRequirements) THEN dict_at(found, N_PropertyRequirements)
    ELSE dict_get(found, N_Parameters)

\* the requirement map reqs with p for the requirement object that
\* get_prop_profile finds at prop_path (lines 1725-1733)
RECURSIVE requirements_with(_, _, _)
requirements_with(reqs, prop_path, p) ==
    IF prop_path[1] = <<>> THEN requirements_with(reqs, Tail(prop_path), p)
    ELSE IF SelectSeq(Tail(prop_path), LAMBDA x : x # <<>>) = <<>>
    THEN dict_set(reqs, prop_path[1], p)
    ELSE dict_set(reqs, prop_path[1],
                  dict_set(dict_at(reqs, prop_path[1]),
                           IF dict_has(dict_at(reqs, prop_path[1]), N_PropertyRequirements)
                           THEN N_PropertyRequirements ELSE N_Parameters,
                           requirements_with(
                               nested_requirements(dict_at(reqs, prop_path[1])),
                               Tail(prop_path), p)))

\* lines 1123-1125: the path _parse_single_property_info looks up
path_to_prop(prop_name, prop_path, within_action) ==
    Append(prop_path,
           IF within_action /\ str_startswith(prop_name, <<35>>)
           THEN after_last_dot(prop_name) ELSE prop_name)

\* config['profile_resources'] with p for what get_prop_profile found for
\* schema_ref, path and section
resources_with(schema_ref, path, section, p) ==
    [config.profile_resources EXCEPT
        ![schema_ref] =
            dict_set(@, profile_section(path, section),
                     requirements_with(
                         dict_at(@, profile_section(path, section)),
                         IF path[1] = N_Actions THEN Tail(path) ELSE path,
                         p))]

\* config['profile_resources'] after _parse_single_property_info(schema_ref,
\* prop_name, prop_info, prop_path, within_action), lines 1114-1125 and
\* 1318-1330; looked is what get_prop_profile returned for the path
profile_resources_after(schema_ref, path, section, looked) ==
    IF looked.err = "" /\ ~ looked.none
       /\ SelectSeq(IF path[1] = N_Actions THEN Tail(path) ELSE path,
                    LAMBDA x : x # <<>>) # <<>>
    THEN resources_with(schema_ref, path, section, with_base_requirement(looked.d))
    ELSE config.profile_resources
----------------------------------------------------------------------------
(* Array Descender: the items of an array property in                      *)
(* _parse_single_property_info, format_list_of_object_descrs and           *)
(* format_non_object_descr.                                                *)

\* line 42: self.collapse_list_of_simple_type
collapse_list_of_simple_type == TRUE

\* a + sep + b for two texts: the text made of both
text_joined(a, sep, b) == a \o sep \o b

\* get_property_description(prop_info), lines 1420-1431
get_property_description(prop_info) ==
    LET normative_descr == Get(prop_info, "longDescription", "")
        descr == IF config.normative /\ str_truthy(normative_descr) THEN normative_descr
                 ELSE Get(prop_info, "description", "")
    IN IF config.normative /\ str_truthy(Get(prop_info, "pattern", PyNone))
       THEN text_joined(descr, " Pattern: ", prop_info.pattern)
       ELSE descr

\* what describing the items leaves: the exception raised, the rows of the
\* items, promote_me, item_list, array_of_objects, the pool, the references
\* warned about
Items(err, rows, promote_me, item_list, array_of_objects, pool, warns) ==
    [err |-> err, rows |-> rows, promote_me |-> promote_me, item_list |-> item_list,
     array_of_objects |-> array_of_objects, common |-> pool, warned |-> warns]

NoItems(pool) == Items("", <<>>, FALSE, "", FALSE, pool, {})

\* lines 1526-1536: format_non_object_descr after extend_property_info has
\* left r for prop_dict
non_object_described(schema_ref, prop_dict, prop_path, r) ==
    IF r.err # "" THEN Items(r.err, <<>>, FALSE, "", FALSE, r.common, r.warned)
    ELSE Items("",
               << format_property_row(schema_ref, Get(prop_dict, "_prop_name", <<>>),
                                      r.infos, prop_path).row >>,
               TRUE, "", FALSE, r.common, r.warned)

\* format_non_object_descr(schema_ref, prop_dict, prop_path, in_array)
format_non_object_descr(schema_ref, prop_dict, prop_path, pool) ==
    non_object_described(schema_ref, prop_dict, prop_path,
                         extend_property_info(schema_ref, prop_dict, EmptyMeta, pool, 1))

\* the rows of one item before the rows of the items after it
items_joined(first, rest) ==
    IF first.err # "" THEN Items(first.err, <<>>, FALSE, "", FALSE, rest.common, first.warned)
    ELSE Items(rest.err,
               IF rest.err = "" THEN first.rows \o rest.rows ELSE <<>>,
               FALSE, "", FALSE, rest.common, first.warned \cup rest.warned)

\* lines 160-164: one item is described as an object when it has
\* properties; d is what format_object_descr leaves for it
object_item(d) == Items(d.err, d.rows, FALSE, "", FALSE, d.common, d.warned)

item_described(schema_ref, prop_item, prop_path, hash_order, pool) ==
    IF "properties" \in DOMAIN prop_item
    THEN object_item(format_object_descr(schema_ref, prop_item, prop_path, FALSE,
                                         hash_order, pool))
    ELSE format_non_object_descr(schema_ref, prop_item, prop_path, pool)

\* format_list_of_object_descrs(schema_ref, prop_items, prop_path) for a
\* list prop_items, lines 166-173: the rows of all items; the result has no
\* promote_me
RECURSIVE format_list_of_object_descrs(_, _, _, _, _)
list_continued(schema_ref, prop_items, prop_path, hash_order, first) ==
    IF first.err # "" THEN first
    ELSE items_joined(first,
                      format_list_of_object_descrs(schema_ref, Tail(prop_items), prop_path,
                                                   hash_order, first.common))

format_list_of_object_descrs(schema_ref, prop_items, prop_path, hash_order, pool) ==
    IF prop_items = <<>> THEN NoItems(pool)
    ELSE list_continued(schema_ref, prop_items, prop_path, hash_order,
                        item_described(schema_ref, prop_items[1], prop_path, hash_order,
                                       pool))

\* lines 1290-1301: the item with the property's name, its readonly and the
\* description of the array before its own
combined_prop_item(prop_name, prop_info, item, descr) ==
    LET named == Put(Put(item, "_prop_name", prop_name),
                     "readonly", Get(prop_info, "readonly", FALSE))
        described ==
            IF config.normative /\ "longDescription" \in DOMAIN item
            THEN Put(named, "longDescription",
                     text_joined(descr, " ", item.longDescription))
            ELSE Put(named, "description",
                     IF str_truthy(Get(item, "description", PyNone))
                     THEN text_joined(descr, " ", item.description)
                     ELSE descr)
    IN IF Get(prop_info, "fulldescription_override", FALSE)
       THEN Put(described, "fulldescription_override", TRUE)
       ELSE described

\* the items are one definition that has a type and no properties
simple_type(prop_items) ==
    /\ Len(prop_items) = 1
    /\ "type" \in DOMAIN prop_items[1] /\ "properties" \notin DOMAIN prop_items[1]

\* with r for what describing the items left, the outcome carries what
\* resolving them warned about
items_outcome(r, warns, collapse_description, array_of_objects, prop_items) ==
    Items(r.err, r.rows, r.promote_me,
          IF collapse_description /\ r.err = ""
          THEN Get(prop_items[1], "type", TNone) ELSE "",
          array_of_objects, r.common, warns \cup r.warned)

\* lines 1277-1315: the rows of the items of an array; prop_items is
\* [prop_item] for an item with a type and no properties
\* (collapse_description), else what extend_property_info returned
items_described(schema_ref, prop_name, prop_info, prop_path, hash_order, pool, warns, collapse_description, prop_items) ==
    IF collapse_description \/ ~ simple_type(prop_items)
    THEN \* list_of_objects
         items_outcome(format_list_of_object_descrs(schema_ref, prop_items,
                                                    Append(prop_path, prop_name),
                                                    hash_order, pool),
                       warns, collapse_description, ~ collapse_description, prop_items)
    ELSE \* list_of_simple_type
         IF collapse_list_of_simple_type
         THEN items_outcome(
                  format_non_object_descr(
                      schema_ref,
                      combined_prop_item(prop_name, prop_info, prop_items[1],
                                         get_property_description(prop_info)),
                      Append(prop_path, prop_name), pool),
                  warns, FALSE, TRUE, prop_items)
         ELSE items_outcome(
                  [format_non_object_descr(schema_ref, prop_items[1],
                                           Append(prop_path, prop_name), pool)
                     EXCEPT !.promote_me = FALSE],
                  warns, FALSE, TRUE, prop_items)

\* lines 1213-1220 and 1277-1315, after extend_property_info has left r for
\* the items
items_resolved(schema_ref, prop_name, prop_info, prop_path, hash_order, prop_is_array, r) ==
    IF r.err # "" THEN Items(r.err, <<>>, FALSE, "", FALSE, r.common, r.warned)
    ELSE IF ~ prop_is_array THEN Items("", <<>>, FALSE, "", TRUE, r.common, r.warned)
    ELSE items_described(schema_ref, prop_name, prop_info, prop_path, hash_order,
                         r.common, r.warned, FALSE, r.infos)

\* lines 1202-1220 and 1276-1315 of _parse_single_property_info: the items
\* of prop_info, which is the definition with its overrides applied
array_items(schema_ref, prop_name, prop_info, prop_path, hash_order, pool) ==
    LET given == Get(prop_info, "type", TList(<<>>))
        prop_is_array == IF given.kind = "list" THEN T_array \in Range(given.l)
                         ELSE given = T_array
    IN IF "items" \notin DOMAIN prop_info
       THEN IF prop_is_array
            THEN \* line 1310: format_non_object_descr(schema_ref, None, new_path)
                 Items("AttributeError", <<>>, FALSE, "", FALSE, pool, {})
            ELSE NoItems(pool)
       ELSE IF "type" \in DOMAIN prop_info.items /\ "properties" \notin DOMAIN prop_info.items
       THEN IF prop_is_array
            THEN items_described(schema_ref, prop_name, prop_info, prop_path, hash_order,
                                 pool, {}, TRUE, <<prop_info.items>>)
            ELSE NoItems(pool)
       ELSE items_resolved(schema_ref, prop_name, prop_info, prop_path, hash_order,
                           prop_is_array,
                           extend_property_info(schema_ref, prop_info.items,
                                                Get(prop_info, "_doc_generator_meta",
                                                    EmptyMeta),
                                                pool, 1))

\* the dict _parse_single_property_info returns, lines 1337-1384: what was
\* taken from the type, and of the items promote_me, item_list,
\* item_description and array_of_objects
single_property_parsed(details, items) ==
    [err |-> IF details.err # "" THEN details.err ELSE items.err,
     prop_type |-> details.prop_type, nullable |-> details.nullable,
     prop_is_object |-> details.prop_is_object, prop_is_array |-> details.prop_is_array,
     is_in_profile |-> details.is_in_profile,
     promote_me |-> items.promote_me, item_list |-> items.item_list,
     item_description |-> items.rows, array_of_objects |-> items.array_of_objects]

\* the items are looked at after the profile has been (line 1125 before line
\* 1202), and after the overrides are applied (line 1135)
items_after(details, schema_ref, prop_name, prop_info, prop_path, hash_order, pool) ==
    IF details.err # "" THEN NoItems(pool)
    ELSE array_items(schema_ref, prop_name, apply_overrides(prop_info, <<>>, <<>>),
                     prop_path, hash_order, pool)
----------------------------------------------------------------------------
(* The metadata merger's calls.                                            *)

\* the deprecation entries a metadata dict of the model carries
DeprecationEntries ==
    { EmptyDict,
      [version_deprecated |-> V_1_2, version_deprecated_explanation |-> "e1"],
      [version_deprecated |-> V_1_10, version_deprecated_explanation |-> "e2"],
      [version_deprecated |-> V_1_2] }

VersionEntries == { EmptyDict, [version |-> V_1_2], [version |-> V_1_10] }

UnversionedEntries == { EmptyDict, [unversioned |-> TRUE] }

\* the entries of a node that are not dicts
NodeScalars ==
    { v @@ d @@ u : v \in VersionEntries, d \in DeprecationEntries,
                    u \in UnversionedEntries }

\* the entries of a nested node
LeafScalars ==
    { [version |-> V_1_10],
      [version |-> V_1_2, version_deprecated |-> V_1_10,
       version_deprecated_explanation |-> "e3"] }

\* the metadata of a child, with per-child maps nested d deep below it
RECURSIVE ChildMetas(_)
ChildMetas(d) ==
    {EmptyMeta} \cup
    { Meta(s, c) : s \in LeafScalars,
                   c \in {EmptyDict} \cup
                         (IF d = 0 THEN {}
                          ELSE { (N_Id :> m) : m \in ChildMetas(d - 1) }) }

\* the metadata dicts merged in the model
NodeMetas ==
    { Meta(s, c) : s \in NodeScalars,
                   c \in {EmptyDict} \cup
                         { (N_Status :> m) : m \in ChildMetas(MaxMetaDepth - 1) } }

\* metadata dicts with the per-child maps of up to two children, nested
NestedMetas ==
    { Meta(s, c) : s \in { EmptyDict, [version |-> V_1_2] },
                   c \in {EmptyDict}
                         \cup { (N_Status :> m) : m \in ChildMetas(MaxMetaDepth) }
                         \cup { (N_Id :> m) : m \in ChildMetas(0) }
                         \cup { (N_Status :> m) @@ (N_Id :> n) :
                                   m \in ChildMetas(MaxMetaDepth), n \in ChildMetas(0) } }

InitMerge ==
    /\ Idle
    /\ config = DefaultConfig
    /\ \/ /\ op = "merge_full_metadata"
          /\ args \in [meta_a : NodeMetas, meta_b : NodeMetas]
       \/ /\ op = "merge_full_metadata"
          /\ args \in [meta_a : NestedMetas, meta_b : NestedMetas]
       \/ /\ op = "merge_metadata"
          /\ args \in [node_name : {N_Status, N_Id},
                        meta : ChildMetas(0),
                        context_meta : NodeMetas]

Return(value) ==
    /\ ret' = value
    /\ pc' = "done"
    /\ UNCHANGED <<config, op, args, parsed>>

MergeFullMetadata ==
    /\ pc = "call" /\ op = "merge_full_metadata"
    /\ Return(merge_full_metadata(args.meta_a, args.meta_b))
    /\ UNCHANGED <<common_properties, warned>>

MergeMetadata ==
    /\ pc = "call" /\ op = "merge_metadata"
    /\ Return(merge_metadata(args.node_name, args.meta, args.context_meta))
    /\ UNCHANGED <<common_properties, warned>>

NextMerge == MergeFullMetadata \/ MergeMetadata

SpecMerge == InitMerge /\ [][NextMerge]_vars

----------------------------------------------------------------------------
(* Claims about the metadata merger (checked under SpecMerge).             *)

MergeDone == pc = "done" /\ op = "merge_full_metadata"

\* r[k] is the lower of a[k] and b[k], which both have
IsLowerOf(r, a, b, k) ==
    /\ k \in DOMAIN r
    /\ r[k] \in {a[k], b[k]}
    /\ compare_versions(r[k], a[k]) <= 0
    /\ compare_versions(r[k], b[k]) <= 0

\* C5: merge_full_metadata keeps the earliest version: the result's
\* introduced version is the lower of the two inputs' when both have one and
\* the one present when only one has it; the result's deprecated version is
\* the lower of the two when both have one and neither side is flagged
\* unversioned.
C5_MergeKeepsEarliest ==
    MergeDone =>
        LET a == args.meta_a.s
            b == args.meta_b.s
            r == ret.s
        IN /\ ("version" \in DOMAIN a /\ "version" \in DOMAIN b)
                => IsLowerOf(r, a, b, "version")
           /\ ("version" \in DOMAIN a /\ "version" \notin DOMAIN b)
                => ("version" \in DOMAIN r /\ r["version"] = a["version"])
           /\ ("version" \notin DOMAIN a /\ "version" \in DOMAIN b)
                => ("version" \in DOMAIN r /\ r["version"] = b["version"])
           /\ ( /\ "version_deprecated" \in DOMAIN a
                /\ "version_deprecated" \in DOMAIN b
                /\ ~ meta_unversioned(a) /\ ~ meta_unversioned(b) )
                => IsLowerOf(r, a, b, "version_deprecated")

\* C5's case: the first argument has the newer introduced version and the
\* newer deprecated version, and the merge took both from the second
C5_Witness ==
    /\ MergeDone
    /\ "version" \in DOMAIN args.meta_a.s /\ "version" \in DOMAIN args.meta_b.s
    /\ compare_versions(args.meta_a.s["version"], args.meta_b.s["version"]) > 0
    /\ "version_deprecated" \in DOMAIN args.meta_a.s
    /\ "version_deprecated" \in DOMAIN args.meta_b.s
    /\ compare_versions(args.meta_a.s["version_deprecated"],
                        args.meta_b.s["version_deprecated"]) > 0
    /\ ~ meta_unversioned(args.meta_a.s) /\ ~ meta_unversioned(args.meta_b.s)
    /\ ret.s["version"] = args.meta_b.s["version"]
    /\ ret.s["version_deprecated"] = args.meta_b.s["version_deprecated"]

\* the two dicts agree on key k: both lack it or both hold the same value
SameEntry(x, y, k) ==
    /\ (k \in DOMAIN x) <=> (k \in DOMAIN y)
    /\ (k \in DOMAIN x) => x[k] = y[k]

\* C6: merge_full_metadata is order-independent: merge(a, b) and
\* merge(b, a) yield the same introduced version, deprecated version,
\* deprecation explanation (an absent one read as '') and per-child
\* metadata, for all pairs, unversioned or deprecated ones included.
C6_MergeOrderIndependent ==
    MergeDone =>
        LET swapped == merge_full_metadata(args.meta_b, args.meta_a)
        IN /\ SameEntry(ret.s, swapped.s, "version")
           /\ SameEntry(ret.s, swapped.s, "version_deprecated")
           /\ meta_explanation(ret.s) = meta_explanation(swapped.s)
           /\ ret.c = swapped.c

\* exactly one side of the merge is flagged unversioned
OneSideUnversioned ==
    meta_unversioned(args.meta_a.s) # meta_unversioned(args.meta_b.s)

\* the entries of the side flagged unversioned
UnversionedSide ==
    IF meta_unversioned(args.meta_a.s) THEN args.meta_a.s ELSE args.meta_b.s

\* C7: when exactly one side of a merge is flagged unversioned, the result
\* never carries the other side's deprecated version, and it carries the
\* unversioned side's own deprecated version and explanation whenever that
\* side declares one, in whichever argument position that side is.
C7_UnversionedSideDecides ==
    (MergeDone /\ OneSideUnversioned) =>
        /\ SameEntry(ret.s, UnversionedSide, "version_deprecated")
        /\ ("version_deprecated" \in DOMAIN UnversionedSide)
             => meta_explanation(ret.s) = meta_explanation(UnversionedSide)


\* r has the children of a and of b: a child of one side as that side has
\* it, a child of both sides with the scalars of their merge and with their
\* children merged in the same way
RECURSIVE ChildrenMerged(_, _, _)
ChildrenMerged(r, a, b) ==
    /\ DOMAIN r.c = (DOMAIN a.c) \cup (DOMAIN b.c)
    /\ \A k \in (DOMAIN a.c) \ (DOMAIN b.c) : r.c[k] = a.c[k]
    /\ \A k \in (DOMAIN b.c) \ (DOMAIN a.c) : r.c[k] = b.c[k]
    /\ \A k \in (DOMAIN a.c) \cap (DOMAIN b.c) :
          /\ r.c[k].s = merge_full_metadata(Meta(a.c[k].s, EmptyDict),
                                            Meta(b.c[k].s, EmptyDict)).s
          /\ ChildrenMerged(r.c[k], a.c[k], b.c[k])

\* C25: merge_full_metadata recurses into the per-child metadata: a child
\* that one side has appears in the result as that side has it, a child
\* that both sides have appears as the merge of the two by the same rules,
\* at every depth of nesting.
C25_ChildrenMergedRecursively ==
    MergeDone => ChildrenMerged(ret, args.meta_a, args.meta_b)

\* both sides have the child Status, each with a child Id of its own, and
\* one side alone has the child Id: the result has both, Status.Id with the
\* lower version
C25_Witness ==
    /\ MergeDone
    /\ N_Id \in DOMAIN args.meta_a.c /\ N_Id \notin DOMAIN args.meta_b.c
    /\ N_Status \in DOMAIN args.meta_a.c /\ N_Status \in DOMAIN args.meta_b.c
    /\ N_Id \in DOMAIN args.meta_a.c[N_Status].c
    /\ N_Id \in DOMAIN args.meta_b.c[N_Status].c
    /\ "version" \in DOMAIN args.meta_a.c[N_Status].c[N_Id].s
    /\ "version" \in DOMAIN args.meta_b.c[N_Status].c[N_Id].s
    /\ args.meta_a.c[N_Status].c[N_Id].s.version = V_1_10
    /\ args.meta_b.c[N_Status].c[N_Id].s.version = V_1_2
    /\ ret.c[N_Id] = args.meta_a.c[N_Id]
    /\ ret.c[N_Status].c[N_Id].s.version = V_1_2
----------------------------------------------------------------------------
(* The calls of the profile filter and of the object descender.            *)

\* names is in case-insensitive ascending order
SortedIgnoringCase(names) ==
    \A i, j \in 1..Len(names) :
        i < j => ~ str_lt(str_lower(names[j]), str_lower(names[i]))

\* no name occurs twice in names
NoRepeats(names) == \A i, j \in 1..Len(names) : names[i] = names[j] => i = j


\* {k: {} for k in keys}, in that order
Requirements(keys) == [i \in 1..Len(keys) |-> [k |-> keys[i], v |-> <<>>]]

\* a profile fragment of a schema: its PropertyRequirements and
\* ActionRequirements sections, each present or not
Fragment(has_pr, pr_keys, has_ar, ar_keys) ==
    (IF has_pr THEN <<[k |-> N_PropertyRequirements, v |-> Requirements(pr_keys)]>>
     ELSE <<>>)
    \o (IF has_ar THEN <<[k |-> N_ActionRequirements, v |-> Requirements(ar_keys)]>>
        ELSE <<>>)

\* the profile arguments of the non-action calls
SchemaProfiles ==
    { NoProfile,
      Profile(<<>>),
      Profile(Fragment(TRUE, <<N_Status>>, FALSE, <<>>)),
      Profile(Fragment(TRUE, <<N_Status, N_Actions>>, FALSE, <<>>)),
      Profile(Fragment(TRUE, <<N_Status>>, TRUE, <<N_Reset>>)),
      Profile(Fragment(TRUE, <<N_id, N_Id>>, TRUE, <<>>)),
      Profile(Fragment(FALSE, <<>>, TRUE, <<N_Reset>>)) }

\* the profile arguments of the action calls: an ActionRequirements map
ActionProfiles ==
    { NoProfile,
      Profile(Requirements(<<N_Reset>>)),
      Profile(Requirements(<<N_Status, N_Reset>>)) }

\* the names requested of the non-action calls, and of the action calls
PropNames == {N_Status, N_Id, N_id, N_Actions, N_odata_id}
ActionNames == {N_TReset, N_UReset, N_Reset, N_Status}

\* two orders in which a run may iterate a set of names
HashOrders ==
    { <<N_Status, N_Id, N_id, N_Actions, N_odata_id>>,
      <<N_odata_id, N_Actions, N_id, N_Id, N_Status>> }

\* the configurations of the name calls
NameConfigs ==
    { [DefaultConfig EXCEPT !.profile_mode = m,
                            !.excluded_properties = x,
                            !.excluded_by_match = y] :
        m \in ProfileModes, x \in {<<>>, <<N_Id>>}, y \in {<<>>, <<N_at>>} }

NoExclusions(c) == c.excluded_properties = <<>> /\ c.excluded_by_match = <<>>

\* a profile fragment with requirements on the properties of Status and
\* on the action Reset
NestedFragment ==
    << Entry(N_PropertyRequirements,
             << Entry(N_Status,
                      << Entry(N_PropertyRequirements,
                               Requirements(<<N_name, N_Id, N_Status>>)) >>) >>),
       Entry(N_ActionRequirements, Requirements(<<N_Reset>>)) >>

\* a profile fragment with a requirement on the parameter name of the
\* action Reset, and one that has no ActionRequirements
ParameterFragment ==
    << Entry(N_PropertyRequirements, Requirements(<<N_Status, N_Actions>>)),
       Entry(N_ActionRequirements,
             << Entry(N_Reset, << Entry(N_Parameters, Requirements(<<N_name>>)) >>) >>) >>

PropertyFragment ==
    << Entry(N_PropertyRequirements, Requirements(<<N_Status, N_Reset>>)) >>

\* the configurations of get_prop_profile's calls, and the paths looked up
\* (a segment may be the empty string)
LookupConfigs ==
    { [DefaultConfig EXCEPT !.profile_mode = "normal", !.profile_resources = r] :
        r \in { EmptyDict,
                (ThingSchema :> NestedFragment),
                (ThingSchema :> ParameterFragment),
                (ThingSchema :> PropertyFragment) } }

LookupPaths ==
    SeqsUpTo({N_Status, N_name, N_Actions, N_Reset, <<>>}, MaxNames) \ {<<>>}

\* the configurations of apply_overrides' calls: description overrides
\* of the schema and of every schema, and units translations, one of them
\* translating a unit to a unit it also translates
OverrideConfigs ==
    { [DefaultConfig EXCEPT !.local_overrides = lo,
                            !.local_full_overrides = lf,
                            !.property_description_overrides = po,
                            !.property_fulldescription_overrides = pf,
                            !.units_translation = ut] :
        lo \in { EmptyDict, (<<N_Thing, N_State>> :> "local") },
        lf \in { EmptyDict, (<<N_Thing, N_State>> :> "local full") },
        po \in { EmptyDict, (N_State :> "overridden") },
        pf \in { EmptyDict, (N_State :> "overridden full") },
        ut \in { EmptyDict,
                 ("W" :> "Watts"),
                 ("W" :> ""),
                 ("W" :> "kW") @@ ("kW" :> "MW") } }

\* the definitions overridden
OverrideDefs ==
    { [type |-> T_string],
      [type |-> T_string, units |-> "W"],
      [type |-> T_string, units |-> "W", description |-> "own",
       _prop_name |-> N_State, _schema_name |-> N_Thing],
      [type |-> T_string, units |-> "kW", _prop_name |-> N_State],
      [type |-> T_string, description |-> "own", longDescription |-> "long",
       fulldescription_override |-> TRUE, _prop_name |-> N_Id] }

\* a profile fragment with conditional requirements on Status, an empty
\* list of them on Id and none on name
ConditionalFragment ==
    << Entry(N_PropertyRequirements,
             << Entry(N_Status,
                      << Entry(N_ReadRequirement, "Mandatory"),
                         Entry(N_ConditionalRequirements,
                               << [Purpose |-> "p", ReadRequirement |-> "Recommended"] >>) >>),
                Entry(N_Id, << Entry(N_ConditionalRequirements, <<>>) >>),
                Entry(N_name, <<>>) >>) >>

\* the configurations of _parse_single_property_info's calls
InterpretConfigs ==
    { [DefaultConfig EXCEPT !.profile_mode = m, !.profile_resources = r,
                            !.normative = n] :
        m \in {"", "normal", "terse"}, n \in BOOLEAN,
        r \in { EmptyDict,
                (ThingSchema :> ConditionalFragment),
                (ThingSchema :> NestedFragment) } }

\* the array properties interpreted: items of a bare type, with and without
\* a description of their own, items that are a reference to a simple type,
\* to a common object, an object written in place, and no items at all
ArrayDefs ==
    { [type |-> T_array, description |-> "arr", items |-> [type |-> T_string]],
      [type |-> T_array, description |-> "arr", readonly |-> TRUE,
       items |-> [type |-> T_string, description |-> "item"]],
      [type |-> T_array, description |-> "arr", longDescription |-> "long arr",
       items |-> [type |-> T_string, description |-> "item",
                  longDescription |-> "long item"]],
      [type |-> TList(<<T_array, T_null>>), description |-> "arr",
       items |-> [ref |-> Local(N_Color)]],
      [type |-> T_array, description |-> "arr",
       items |-> [ref |-> Ref(N_Resource, Ver_1_0_0, N_Sub)]],
      [type |-> T_array, description |-> "arr",
       items |-> [type |-> T_object,
                  properties |-> << Entry(N_Id, [type |-> T_string]) >>]],
      [type |-> T_array, description |-> "arr"] }

\* the child names of the objects described, and what each child is
ObjNames == {N_Status, N_Id, N_name, N_odata_id, N_TReset}

ChildDefinition(name) ==
    IF name = N_Status THEN [ref |-> Ref(N_Resource, Ver_1_10_0, N_Status)]
    ELSE IF name = N_name THEN [ref |-> Local(N_Color), description |-> "own"]
    ELSE IF name = N_TReset THEN [type |-> T_object, description |-> "Reset"]
    ELSE [type |-> T_string]

\* the objects described: their children in every order of appearance
Objects ==
    { [type |-> T_object,
       parent_requires |-> <<N_Id>>,
       properties |-> [i \in 1..Len(names) |-> Entry(names[i], ChildDefinition(names[i]))]] :
        names \in { s \in SeqsUpTo(ObjNames, MaxNames) : NoRepeats(s) } }

\* two orders in which a run may iterate a set of child names
ObjHashOrders ==
    { <<N_Status, N_Id, N_name, N_odata_id, N_TReset>>,
      <<N_TReset, N_odata_id, N_name, N_Id, N_Status>> }

\* the configurations of the descender's calls
ObjConfigs ==
    { [DefaultConfig EXCEPT !.profile_mode = m,
                            !.excluded_annotations_by_match = y,
                            !.profile_resources =
                                IF m = "" THEN EmptyDict
                                ELSE (ThingSchema :> NestedFragment)] :
        m \in ProfileModes, y \in {<<>>, <<N_at>>} }

\* the configurations of generate_output
OutputConfigs ==
    { [DefaultConfig EXCEPT !.profile_mode = m,
                            !.excluded_properties = x,
                            !.wants_common_objects = w,
                            !.profile_resources = r] :
        m \in ProfileModes, x \in {<<>>, <<N_Id>>}, w \in BOOLEAN,
        r \in {EmptyDict, (ThingSchema :> NestedFragment)} }

InitNames ==
    /\ Idle
    /\ \/ config \in NameConfigs /\ op \in {"filter_props_by_profile", "exclude_prop_names",
                                            "organize_prop_names"}
       \/ config \in ObjConfigs /\ op = "format_object_descr"
       \/ config \in OutputConfigs /\ op = "generate_output"
       \/ config \in LookupConfigs /\ op = "get_prop_profile"
       \/ config \in OverrideConfigs /\ op = "apply_overrides"
       \/ config \in InterpretConfigs /\ op = "parse_single_property_info"
    /\ \/ /\ op = "format_object_descr"
          /\ args \in [schema_ref : {ThingSchema},
                        prop_info : Objects,
                        prop_path : {<<>>, <<N_Status>>, <<N_Actions>>},
                        is_action : BOOLEAN,
                        hash_order : ObjHashOrders]
       \/ /\ op = "generate_output"
          /\ args \in [hash_order : ObjHashOrders]
       \/ /\ op = "apply_overrides"
          /\ args \in [prop_info : OverrideDefs,
                        schema_name : {<<>>, N_Thing},
                        prop_name : {<<>>, N_State}]
       \/ /\ op = "parse_single_property_info"
          /\ ~ config.normative
          /\ args \in [schema_ref : {ThingSchema, ChassisSchema},
                        prop_name : {N_Status, N_Id, N_name, <<>>},
                        prop_info : { [type |-> T_string],
                                      [type |-> TList(<<T_string, T_null>>),
                                       description |-> "own"] },
                        prop_path : {<<>>, <<N_Status>>},
                        within_action : BOOLEAN,
                        hash_order : {<<N_Status, N_Id, N_name, N_odata_id, N_TReset>>}]
       \/ /\ op = "parse_single_property_info"
          /\ config.profile_resources = EmptyDict
          /\ args \in [schema_ref : {ThingSchema},
                        prop_name : {N_Status, <<>>},
                        prop_info : ArrayDefs,
                        prop_path : {<<>>, <<N_Id>>},
                        within_action : {FALSE},
                        hash_order : ObjHashOrders]
       \/ /\ op = "get_prop_profile"
          /\ args \in [schema_ref : {ThingSchema, ChassisSchema},
                        prop_path : LookupPaths,
                        section : {N_PropertyRequirements, N_ActionRequirements}]
       \/ /\ op = "filter_props_by_profile"
          /\ NoExclusions(config)
          /\ \/ args \in [prop_names : SeqsUpTo(PropNames, MaxNames),
                           profile : SchemaProfiles,
                           is_action : {FALSE},
                           hash_order : HashOrders]
             \/ args \in [prop_names : SeqsUpTo(ActionNames, MaxNames),
                           profile : ActionProfiles,
                           is_action : {TRUE},
                           hash_order : {CHOOSE h \in HashOrders : TRUE}]
       \/ /\ op = "exclude_prop_names"
          /\ config = DefaultConfig
          /\ args \in [prop_names : SeqsUpTo(PropNames, MaxNames),
                        props_to_exclude : {<<>>, <<N_Id>>},
                        props_to_exclude_by_match : {<<>>, <<N_at>>, <<N_at, <<100>>>>}]
       \/ /\ op = "organize_prop_names"
          /\ args \in [prop_names : SeqsUpTo(PropNames, MaxNames),
                        profile : { NoProfile, Profile(<<>>),
                                    Profile(Fragment(TRUE, <<N_Status>>, TRUE, <<N_Reset>>)),
                                    Profile(Fragment(TRUE, <<N_id, N_Id>>, TRUE, <<>>)) },
                        hash_order : HashOrders]

FilterPropsByProfile ==
    /\ pc = "call" /\ op = "filter_props_by_profile"
    /\ Return(filter_props_by_profile(args.prop_names, args.profile,
                                      args.is_action, args.hash_order))
    /\ UNCHANGED <<common_properties, warned>>

ExcludePropNames ==
    /\ pc = "call" /\ op = "exclude_prop_names"
    /\ Return(exclude_prop_names(args.prop_names, args.props_to_exclude,
                                 args.props_to_exclude_by_match))
    /\ UNCHANGED <<common_properties, warned>>

OrganizePropNames ==
    /\ pc = "call" /\ op = "organize_prop_names"
    /\ Return(organize_prop_names(args.prop_names, args.profile, args.hash_order))
    /\ UNCHANGED <<common_properties, warned>>

\* format_object_descr(schema_ref, prop_info, prop_path, is_action)
FormatObjectDescr ==
    /\ pc = "call" /\ op = "format_object_descr"
    /\ \E r \in { format_object_descr(args.schema_ref, args.prop_info, args.prop_path,
                                       args.is_action, args.hash_order,
                                       common_properties) } :
          /\ Return([err |-> r.err, rows |-> r.rows, prop_info |-> r.prop_info])
          /\ common_properties' = r.common
          /\ warned' = warned \cup r.warned

\* generate_output()
GenerateOutput ==
    /\ pc = "call" /\ op = "generate_output"
    /\ \E r \in { generate_output(args.hash_order, common_properties) } :
          /\ Return([err |-> r.err, sections |-> r.sections])
          /\ common_properties' = r.common
          /\ warned' = warned \cup r.warned

\* get_prop_profile(schema_ref, prop_path, section)
GetPropProfile ==
    /\ pc = "call" /\ op = "get_prop_profile"
    /\ Return(get_prop_profile(args.schema_ref, args.prop_path, args.section))
    /\ UNCHANGED <<common_properties, warned>>

\* apply_overrides(prop_info, schema_name, prop_name), and again on what it
\* returned; parsed keeps what the first call returned
ApplyOverrides ==
    /\ op = "apply_overrides"
    /\ \/ /\ pc = "call"
          /\ ret' = apply_overrides(args.prop_info, args.schema_name, args.prop_name)
          /\ pc' = "done"
          /\ UNCHANGED parsed
       \/ /\ pc = "done"
          /\ ret' = apply_overrides(ret, args.schema_name, args.prop_name)
          /\ pc' = "again"
          /\ parsed' = ret
    /\ UNCHANGED <<config, op, args, common_properties, warned>>

\* _parse_single_property_info(schema_ref, prop_name, prop_info, prop_path,
\* within_action) for a property of a simple type, and the same once more;
\* parsed keeps config['profile_resources'] as it was before the first call
ParseSinglePropertyInfo ==
    /\ op = "parse_single_property_info"
    /\ \/ pc = "call" /\ pc' = "done" /\ parsed' = config.profile_resources
       \/ pc = "done" /\ pc' = "again" /\ UNCHANGED parsed
    /\ \E details \in { parse_single_property_info(args.schema_ref, args.prop_name,
                                                    args.prop_info, args.prop_path,
                                                    args.within_action) } :
       \E items \in { items_after(details, args.schema_ref, args.prop_name,
                                  args.prop_info, args.prop_path, args.hash_order,
                                  common_properties) } :
          /\ ret' = single_property_parsed(details, items)
          /\ common_properties' = items.common
          /\ warned' = warned \cup items.warned
    /\ \E looked \in { profile_of(args.schema_ref, args.prop_name, args.prop_path,
                                   args.within_action, TRUE) } :
          config' = [config EXCEPT
                        !.profile_resources =
                            IF config.profile_mode # "" /\ args.prop_name # <<>>
                            THEN profile_resources_after(
                                     args.schema_ref,
                                     path_to_prop(args.prop_name, args.prop_path,
                                                  args.within_action),
                                     IF args.within_action THEN N_ActionRequirements
                                     ELSE N_PropertyRequirements,
                                     looked)
                            ELSE config.profile_resources]
    /\ UNCHANGED <<op, args>>

NextNames ==
    \/ FilterPropsByProfile
    \/ ExcludePropNames
    \/ OrganizePropNames
    \/ FormatObjectDescr
    \/ GenerateOutput
    \/ GetPropProfile
    \/ ApplyOverrides
    \/ ParseSinglePropertyInfo

SpecNames == InitNames /\ [][NextNames]_vars

----------------------------------------------------------------------------
(* Claims about the profile filter (checked under SpecNames).              *)

\* a terse, non-action call of filter_props_by_profile with a profile
\* fragment has returned
TerseFilterDone ==
    /\ pc = "done" /\ op = "filter_props_by_profile"
    /\ config.profile_mode = "terse"
    /\ ~ args.is_action
    /\ ~ args.profile.none

\* the names a fragment admits: the keys of its property requirements and,
\* when it declares action requirements, "Actions"
AdmittedNames(fragment) ==
    Range(dict_keys(dict_get(fragment, N_PropertyRequirements)))
    \cup (IF dict_get(fragment, N_ActionRequirements) # <<>> THEN {N_Actions} ELSE {})

\* the call of the spec's example: fragment with Status and action
\* requirements, names ["Status", "Id", "Actions"]
C8_ExampleCall ==
    /\ TerseFilterDone
    /\ args.profile = Profile(Fragment(TRUE, <<N_Status>>, TRUE, <<N_Reset>>))
    /\ args.prop_names = <<N_Status, N_Id, N_Actions>>

\* C8: in terse mode filter_props_by_profile (non-action) returns exactly
\* the requested names that are keys of the fragment's property
\* requirements, and "Actions" if requested and the fragment declares action
\* requirements, each once, sorted case-insensitively; names
\* ["Status", "Id", "Actions"] give ["Actions", "Status"].
C8_TerseFilterExact ==
    /\ TerseFilterDone =>
          /\ Range(ret) = Range(args.prop_names) \cap AdmittedNames(args.profile.d)
          /\ NoRepeats(ret)
          /\ SortedIgnoringCase(ret)
    /\ C8_ExampleCall => ret = <<N_Actions, N_Status>>

\* C8's case: the example call has returned ["Actions", "Status"]
C8_Witness == C8_ExampleCall /\ ret = <<N_Actions, N_Status>>

\* C9: in the non-terse conformance mode filter_props_by_profile returns every requested
\* name, for every profile fragment, an absent one (None) included.
C9_NonTerseKeepsEveryName ==
    ( /\ pc = "done" /\ op = "filter_props_by_profile"
      /\ config.profile_mode = "normal" )
        => Range(args.prop_names) \subseteq Range(ret)

\* C10: name sequences are in case-insensitive ascending order:
\* filter_props_by_profile, exclude_prop_names and organize_prop_names
\* return sorted names whatever they filter out, and the rows that
\* format_object_descr and generate_output emit follow that sorted order of
\* the child names, not the order in which the definition lists them.
C10_NamesSortedIgnoringCase ==
    /\ ( /\ pc = "done"
         /\ op \in {"filter_props_by_profile", "exclude_prop_names",
                     "organize_prop_names"} )
          => SortedIgnoringCase(ret)
    /\ (pc = "done" /\ op = "format_object_descr" /\ ret.err = "")
          => SortedIgnoringCase(row_names(ret.rows))
    /\ (pc = "done" /\ op = "generate_output" /\ ret.err = "")
          => \A i \in 1..Len(ret.sections) :
                SortedIgnoringCase(row_names(ret.sections[i].rows))

\* C10's case: an object listing Status, name, Id has been described in
\* the rows Id, name, Status
C10_Witness ==
    /\ pc = "done" /\ op = "format_object_descr" /\ ret.err = ""
    /\ dict_keys(args.prop_info.properties) = <<N_Status, N_name, N_Id>>
    /\ row_names(ret.rows) = <<N_Id, N_name, N_Status>>

\* a call of get_prop_profile has returned
LookupDone == pc = "done" /\ op = "get_prop_profile" /\ ret.err = ""

\* the requirements nested in the requirement object p: its
\* PropertyRequirements, else its Parameters, else none
RequirementsUnder(p) ==
    IF dict_has(p, N_PropertyRequirements) THEN dict_at(p, N_PropertyRequirements)
    ELSE IF dict_has(p, N_Parameters) THEN dict_at(p, N_Parameters)
    ELSE <<>>

\* the requirement objects met going down segs from the requirement map
\* reqs, up to the first segment that is missing
RECURSIVE Descent(_, _)
Descent(reqs, segs) ==
    IF segs = <<>> \/ ~ dict_has(reqs, segs[1]) THEN <<>>
    ELSE <<dict_at(reqs, segs[1])>>
         \o Descent(RequirementsUnder(dict_at(reqs, segs[1])), Tail(segs))

\* the section a call looks in, and the segments it looks up there
SectionLooked ==
    IF args.prop_path[1] = N_Actions THEN N_ActionRequirements ELSE args.section

SegmentsLooked ==
    SelectSeq(IF args.prop_path[1] = N_Actions THEN Tail(args.prop_path)
              ELSE args.prop_path,
              LAMBDA x : x # <<>>)

\* the profile has the section looked in, for the schema of the call
SectionPresent ==
    /\ args.schema_ref \in DOMAIN config.profile_resources
    /\ dict_has(config.profile_resources[args.schema_ref], SectionLooked)

\* C11: get_prop_profile walks the path through the nested requirement
\* maps: it returns None as soon as a segment is missing, and the
\* requirement object of the last segment, were it empty, when every
\* segment is present; a path that starts at Actions is looked up in the
\* action requirements.
C11_ProfileWalk ==
    LookupDone =>
        IF ~ SectionPresent THEN ret.none
        ELSE LET reqs == dict_at(config.profile_resources[args.schema_ref], SectionLooked)
                 met == Descent(reqs, SegmentsLooked)
             IN IF Len(met) < Len(SegmentsLooked) THEN ret.none
                ELSE /\ ~ ret.none
                     /\ ret.d = IF met = <<>> THEN reqs ELSE met[Len(met)]

\* Status/name is present with an empty requirement object, and
\* Actions/Reset is found in the action requirements
C11_Witness ==
    /\ LookupDone
    /\ config.profile_resources = (ThingSchema :> NestedFragment)
    /\ args.schema_ref = ThingSchema
    /\ args.section = N_PropertyRequirements
    /\ \/ args.prop_path = <<N_Status, N_name>>
       \/ args.prop_path = <<N_Actions, N_Reset>>
    /\ ret = Looked("", FALSE, <<>>)

\* a segment that is missing below one that is present
MissingSegmentLooked ==
    /\ LookupDone
    /\ config.profile_resources = (ThingSchema :> NestedFragment)
    /\ args.schema_ref = ThingSchema
    /\ args.prop_path = <<N_Status, N_Reset>>
    /\ ret.none

\* apply_overrides has been applied to a definition and again to its result
OverriddenTwice == pc = "again" /\ op = "apply_overrides"

\* C12: apply_overrides is idempotent: for every definition and every
\* override configuration, applying it twice gives the same definition as
\* applying it once.
C12_OverridesIdempotent == OverriddenTwice => ret = parsed

\* no unit is translated to a unit that is translated to another one
UnitsTranslatedOnce ==
    \A u \in DOMAIN config.units_translation :
        LET t == config.units_translation[u]
        IN t \in DOMAIN config.units_translation
               => ~ str_truthy(config.units_translation[t])
                  \/ config.units_translation[t] = t

\* what holds of apply_overrides: the second application changes nothing
\* unless it translates the translated units again
IdempotentButForUnits ==
    OverriddenTwice =>
        /\ [k \in DOMAIN ret \ {"units"} |-> ret[k]]
               = [k \in DOMAIN parsed \ {"units"} |-> parsed[k]]
        /\ UnitsTranslatedOnce => ret = parsed

\* a description override and a translation of W have been applied twice
OverriddenTwiceSame ==
    /\ OverriddenTwice
    /\ config.units_translation = ("W" :> "Watts")
    /\ config.property_description_overrides = (N_State :> "overridden")
    /\ args.prop_info.type = T_string /\ "description" \in DOMAIN args.prop_info
    /\ ret = parsed
    /\ ret.units = "Watts" /\ ret.description = "overridden"

\* a property has been interpreted, once or twice
Interpreted ==
    op = "parse_single_property_info" /\ pc \in {"done", "again"} /\ ret.err = ""

\* C15: the engine only reads the conformance profile: after a property
\* has been interpreted in profile mode, once or more than once, with or
\* without conditional requirements, the configured profile is unchanged.
C15_ProfileOnlyRead == Interpreted => config.profile_resources = parsed

\* the interpreted property has conditional requirements in the profile
HasConditionalRequirements ==
    /\ config.profile_mode # ""
    /\ args.schema_ref \in DOMAIN parsed
    /\ args.prop_path = <<>> /\ ~ args.within_action
    /\ dict_has(parsed[args.schema_ref], N_PropertyRequirements)
    /\ LET reqs == dict_at(parsed[args.schema_ref], N_PropertyRequirements)
       IN /\ dict_has(reqs, args.prop_name)
          /\ dict_has(dict_at(reqs, args.prop_name), N_ConditionalRequirements)
          /\ dict_at(dict_at(reqs, args.prop_name), N_ConditionalRequirements) # <<>>

\* what holds: the profile is unchanged after interpreting a property that
\* has no conditional requirements in it
ProfileReadWithoutConditions ==
    (Interpreted /\ ~ HasConditionalRequirements) => config.profile_resources = parsed


\* an array property has been interpreted
ArrayInterpreted == Interpreted /\ ret.prop_is_array /\ "items" \in DOMAIN args.prop_info

\* its items are a bare string type: a type, no properties, no reference
BareStringItems ==
    /\ ArrayInterpreted
    /\ "type" \in DOMAIN args.prop_info.items /\ args.prop_info.items.type = T_string
    /\ "properties" \notin DOMAIN args.prop_info.items
    /\ "ref" \notin DOMAIN args.prop_info.items

\* the one row of the items carries the name of the array and a description
\* made of the array's and of the item's
CombinedRow ==
    /\ ret.promote_me
    /\ Len(ret.item_description) = 1
    /\ ret.item_description[1].name = args.prop_name
    /\ Len(ret.item_description[1].prop_infos) = 1
    /\ LET item == ret.item_description[1].prop_infos[1]
           given == args.prop_info.items
           own == IF "ref" \in DOMAIN given THEN CorpusDefinition(Ref(N_Thing, NoVer, given.ref.frag))
                  ELSE given
           descr == get_property_description(args.prop_info)
       IN IF config.normative /\ "longDescription" \in DOMAIN own
          THEN item.longDescription = descr \o " " \o own.longDescription
          ELSE /\ "description" \in DOMAIN item
               /\ item.description = IF "description" \in DOMAIN own
                                     THEN descr \o " " \o own.description
                                     ELSE descr

\* C18: an array whose items are a bare string type is described, with
\* collapse_list_of_simple_type set, by one row that combines the array's and
\* the item's descriptions: the item's row is promoted into the array's row
\* and is not a second row.
C18_BareItemsCollapsed ==
    (BareStringItems /\ collapse_list_of_simple_type) => CombinedRow

\* the items are a reference to a definition of a simple type
ReferencedSimpleItems ==
    /\ ArrayInterpreted
    /\ DOMAIN args.prop_info.items = {"ref"}
    /\ args.prop_info.items.ref = Local(N_Color)

\* what holds: items that are a reference to a simple type are described by
\* the one combined row
ReferencedItemsCollapsed ==
    (ReferencedSimpleItems /\ collapse_list_of_simple_type) => CombinedRow

\* what holds: the row of bare items is a row of their own, without the name
\* of the array and without its description, and is not promoted
BareItemsRowOfTheirOwn ==
    BareStringItems =>
        /\ ~ ret.promote_me
        /\ ret.item_list = T_string
        /\ Len(ret.item_description) = 1
        /\ ret.item_description[1].name = <<>>
        /\ ret.item_description[1].prop_infos[1] = args.prop_info.items

\* a terse call of filter_props_by_profile for action names has returned
TerseActionFiltered ==
    /\ pc = "done" /\ op = "filter_props_by_profile"
    /\ config.profile_mode = "terse"
    /\ args.is_action /\ ~ args.profile.none

\* name equals a key of the action requirements, or ends in "." and a key
\* that no requested name equals
MatchesRequirement(name) ==
    \E k \in Range(terse_profile_props(args.profile, TRUE)) :
        \/ name = k
        \/ /\ k \notin Range(args.prop_names)
           /\ str_endswith(name, <<46>> \o k)

\* C26: in terse mode with is_action set, filter_props_by_profile keeps a
\* requested action name that equals a key of the action requirements, or,
\* without an exact match, one whose suffix after the last dot equals a
\* key; every requested name that matches by suffix is kept, and no name is
\* returned twice.
C26_EverySuffixMatchKept ==
    TerseActionFiltered =>
        /\ Range(ret) = { n \in Range(args.prop_names) : MatchesRequirement(n) }
        /\ NoRepeats(ret)

\* what holds: the names returned match, and for each key a requested name
\* equals, that name is returned; for each other key that requested names
\* end in, the first of them is returned and no other for that key
FirstSuffixMatchKept ==
    TerseActionFiltered =>
        /\ Range(ret) \subseteq { n \in Range(args.prop_names) : MatchesRequirement(n) }
        /\ \A k \in Range(terse_profile_props(args.profile, TRUE)) :
              LET matches == SelectSeq(args.prop_names,
                                       LAMBDA x : str_endswith(x, <<46>> \o k))
              IN IF k \in Range(args.prop_names) THEN k \in Range(ret)
                 ELSE matches # <<>> => matches[1] \in Range(ret)
        /\ Len(ret) <= Len(terse_profile_props(args.profile, TRUE))

\* two requested names end in ".Reset" and one is returned
SecondSuffixMatchDropped ==
    /\ TerseActionFiltered
    /\ args.prop_names = <<N_TReset, N_UReset>>
    /\ ret = <<N_TReset>>

----------------------------------------------------------------------------
(* C30: units and the overrides of descriptions                            *)

\* apply_overrides has been applied once to the call's definition
OverriddenOnce == pc = "done" /\ op = "apply_overrides"

\* the units of the call's definition have an entry in the table of
\* translations
UnitsHaveEntry ==
    /\ "units" \in DOMAIN args.prop_info
    /\ args.prop_info.units \in DOMAIN config.units_translation

\* the names that the overrides of the call are looked up with (lines
\* 1605-1609)
OverrideKey ==
    << IF args.schema_name # <<>> THEN args.schema_name
       ELSE Get(args.prop_info, "_schema_name", <<>>),
       IF args.prop_name # <<>> THEN args.prop_name
       ELSE Get(args.prop_info, "_prop_name", <<>>) >>

\* an override of the schema applies to the call's definition
LocalOverrideApplies ==
    \/ OverrideKey \in DOMAIN config.local_overrides
    \/ OverrideKey \in DOMAIN config.local_full_overrides

\* an override of every schema applies to the call's definition
GlobalOverrideApplies ==
    \/ OverrideKey[2] \in DOMAIN config.property_description_overrides
    \/ OverrideKey[2] \in DOMAIN config.property_fulldescription_overrides

\* C30: apply_overrides translates the units of every definition whose
\* units have an entry in the table of translations, whether or not an
\* override of the description or of the full description, of the schema or
\* of every schema, applies to the property as well; and it never modifies
\* the definition it is given.
C30_UnitsTranslatedWhateverOverrides ==
    [][(op = "apply_overrides" /\ pc = "call") =>
          /\ args' = args
          /\ UnitsHaveEntry =>
                ret'.units = config.units_translation[args.prop_info.units]]_vars

\* what holds: the definition given is never modified
OverriddenInputKept == [][op = "apply_overrides" => args' = args]_vars

\* what holds: when no override of the schema applies, units with an entry
\* that is not empty are translated, whether or not an override of every
\* schema applies
TranslatedWithoutLocalOverride ==
    (OverriddenOnce /\ UnitsHaveEntry /\ ~ LocalOverrideApplies
       /\ str_truthy(config.units_translation[args.prop_info.units]))
        => ret.units = config.units_translation[args.prop_info.units]

\* what holds: when an override of the schema applies, the units are left
\* as they were
UnitsKeptUnderLocalOverride ==
    (OverriddenOnce /\ UnitsHaveEntry /\ LocalOverrideApplies)
        => ret.units = args.prop_info.units

\* units with an entry, under an override of the schema, left untranslated
UntranslatedUnderLocalOverride ==
    /\ OverriddenOnce /\ UnitsHaveEntry /\ LocalOverrideApplies
    /\ config.units_translation = ("W" :> "Watts")
    /\ ret.units = "W"
    /\ ret.description = "local"

\* units translated under an override of every schema
TranslatedUnderGlobalOverride ==
    /\ OverriddenOnce /\ UnitsHaveEntry /\ GlobalOverrideApplies /\ ~ LocalOverrideApplies
    /\ ret.units = "Watts"
    /\ ret.description = "overridden"

----------------------------------------------------------------------------
(* The resolver's calls: extend_property_info, then parse_property_info on *)
(* what it returned.                                                       *)

\* the most alternatives of a union of the model
MaxAlts == 3

N_Version4 == Ver(<<(<<4>>), (<<0>>), (<<0>>)>>)

\* the references of the model that the corpus resolves, the ones it does
\* not, and idRef
StateRefs == { Ref(N_Resource, v, N_State) : v \in ResourceVersions }
EitherRefs == { Ref(N_Resource, v, N_Either) : v \in {Ver_1_0_0, Ver_1_10_0} }
StatusRefs == { Ref(N_Resource, v, N_Status) : v \in {Ver_1_0_0, Ver_1_10_0, NoVer} }
LocalRefs == { Local(f) : f \in {N_Color, N_Alias, N_Pair, N_Mixed, N_Loop, N_Sub, N_Thing} }
SchemaRefs == { Ref(N_Chassis, NoVer, N_Chassis),
                Ref(N_ThingCollection, NoVer, N_ThingCollection) }
MissingRefs == { Local(N_Missing), Ref(N_Missing, Ver_1_0_0, N_Missing) }
IdRefs == { Ref(N_odata, N_Version4, N_idRef) }

\* what the referencing definition says of itself
Annotations ==
    { EmptyDict,
      [description |-> "own"],
      [description |-> "", readonly |-> TRUE],
      [_doc_generator_meta |-> Meta([version |-> V_1_10], EmptyDict)] }

\* definitions with neither a reference nor alternatives
PlainDefs ==
    { [type |-> T_string],
      [type |-> T_string, description |-> "own", units |-> "W",
       _prop_name |-> N_State],
      [type |-> TList(<<T_string, T_null>>)],
      [type |-> T_object, properties |-> <<StringProp(N_Id)>>],
      [description |-> "own"],
      EmptyDict }

\* definitions with a reference
RefDefs ==
    { [ref |-> r] @@ a :
        r \in StateRefs \cup EitherRefs \cup StatusRefs \cup LocalRefs \cup SchemaRefs
              \cup MissingRefs \cup IdRefs,
        a \in Annotations }

\* the alternatives of the unions
Alts ==
    { [type |-> T_null], [type |-> T_string] }
    \cup { [ref |-> r] : r \in StateRefs \cup EitherRefs \cup IdRefs
                                \cup { Local(N_Color), Ref(N_Chassis, NoVer, N_Chassis),
                                       Ref(N_Resource, Ver_1_10_0, N_Status) } }

\* definitions with alternatives
UnionDefs ==
    { [anyOf |-> alts] @@ a :
        alts \in SeqsUpTo(Alts, MaxAlts),
        a \in { EmptyDict,
                [description |-> "own"],
                [_doc_generator_meta |-> Meta([version |-> V_1_10], EmptyDict)] } }

\* the metadata of the context of a call
ContextMetas ==
    { EmptyMeta,
      Meta(EmptyDict, (N_State :> Meta([version |-> V_1_2], EmptyDict))) }

\* the configurations of the resolver's calls
ResolverConfigs ==
    { [DefaultConfig EXCEPT !.wants_common_objects = w,
                            !.property_description_overrides = o] :
        w \in BOOLEAN, o \in { EmptyDict, (N_State :> "overridden") } }

\* a profile with requirements on State in the schema Thing
StateFragment ==
    << Entry(N_PropertyRequirements,
             << Entry(N_State, << Entry(N_ReadRequirement, "Mandatory") >>) >>) >>

\* the configurations of the calls made with a profile
ProfiledConfigs ==
    { [DefaultConfig EXCEPT !.profile_mode = m, !.profile_resources = r] :
        m \in {"normal", "terse"},
        r \in { EmptyDict, (ThingSchema :> StateFragment) } }

\* the definitions interpreted with a profile: references to one
\* definition and to a union, and unions
ProfiledDefs ==
    { [ref |-> Ref(N_Resource, Ver_1_9_0, N_State)],
      [ref |-> Ref(N_Resource, Ver_1_10_0, N_Either)],
      [ref |-> Local(N_Mixed)],
      [anyOf |-> << [ref |-> Ref(N_Resource, Ver_1_9_0, N_State)], [type |-> T_null] >>],
      [anyOf |-> << [ref |-> Ref(N_Resource, Ver_1_10_0, N_Status)],
                    [ref |-> Ref(N_Chassis, NoVer, N_Chassis)] >>] }

Init ==
    /\ Idle
    /\ op = "extend_property_info"
    /\ \/ /\ config \in ResolverConfigs
          /\ args \in [schema_ref : {ThingSchema, SchemaRef(N_Resource, Ver_1_10_0)},
                        prop_name : {N_State},
                        prop_info : PlainDefs \cup RefDefs,
                        context_meta : ContextMetas]
       \/ /\ config = DefaultConfig
          /\ args \in [schema_ref : {ThingSchema},
                        prop_name : {N_State},
                        prop_info : UnionDefs,
                        context_meta : ContextMetas]
       \/ /\ config \in ProfiledConfigs
          /\ args \in [schema_ref : {ThingSchema},
                        prop_name : {N_State},
                        prop_info : ProfiledDefs,
                        context_meta : {EmptyMeta}]

\* extend_property_info(schema_ref, prop_info, context_meta)
ExtendPropertyInfo ==
    /\ pc = "call" /\ op = "extend_property_info"
    /\ \E r \in { extend_property_info(args.schema_ref, args.prop_info,
                                        args.context_meta, common_properties, 1) } :
          /\ ret' = [err |-> r.err, infos |-> r.infos, prop_info |-> r.prop_info]
          /\ common_properties' = r.common
          /\ warned' = warned \cup r.warned
    /\ pc' = "done"
    /\ UNCHANGED <<config, op, args, parsed>>

\* parse_property_info(schema_ref, prop_name, prop_infos, []) on the list
\* that extend_property_info returned
ParsePropertyInfo ==
    /\ pc = "done" /\ op = "extend_property_info"
    /\ ret.err = ""
    /\ parsed' = parse_property_info(args.schema_ref, args.prop_name, ret.infos,
                                     <<>>, FALSE)
    /\ pc' = "parsed"
    /\ UNCHANGED <<config, op, args, ret, common_properties, warned>>

Next == ExtendPropertyInfo \/ ParsePropertyInfo

Spec == Init /\ [][Next]_vars

----------------------------------------------------------------------------
(* Claims about the resolver (checked under Spec).                         *)

\* extend_property_info has been called and has returned or raised
ExtendDone == pc \in {"done", "parsed"} /\ op = "extend_property_info"

\* the reference that the '$ref' r of a definition of schema_ref names
FullRef(schema_ref, r) == IF ref_is_local(r) THEN ref_concat(schema_ref, r) ELSE r

\* the call's definition has neither a reference nor alternatives
HasNeither == "ref" \notin DOMAIN args.prop_info /\ "anyOf" \notin DOMAIN args.prop_info

\* C1: for a definition with neither a reference ($ref) nor alternatives
\* (anyOf), extend_property_info returns exactly one element, the input
\* definition with its keys and values unchanged (it applies no override
\* itself), and leaves its argument as it was.
C1_UnreferencedReturnedAsIs ==
    (ExtendDone /\ HasNeither) =>
        /\ ret.err = ""
        /\ ret.infos = <<args.prop_info>>
        /\ ret.prop_info = args.prop_info

\* C1's case: a described string with units, under a configuration that
\* overrides descriptions, has come back as the only element
C1_Witness ==
    /\ ExtendDone /\ HasNeither
    /\ args.prop_info = [type |-> T_string, description |-> "own", units |-> "W",
                         _prop_name |-> N_State]
    /\ N_State \in DOMAIN config.property_description_overrides
    /\ ret.infos = <<args.prop_info>>

\* the call's definition has a direct reference that the Schema Index does
\* not resolve
UnresolvableRef ==
    /\ "ref" \in DOMAIN args.prop_info /\ "anyOf" \notin DOMAIN args.prop_info
    /\ ~ ref_is_idRef(args.prop_info.ref)
    /\ ~ find_ref_data(FullRef(args.schema_ref, args.prop_info.ref)).found

VersionsOfOneTarget(alts) ==
    /\ Len(alts) >= 2
    /\ \A i \in 1..Len(alts) :
          /\ "ref" \in DOMAIN alts[i]
          /\ alts[i].ref.kind = "ref"
          /\ alts[i].ref.ver # NoVer
    /\ \A i, j \in 1..Len(alts) :
          [alts[i].ref EXCEPT !.ver = NoVer] = [alts[j].ref EXCEPT !.ver = NoVer]
    /\ \A i, j \in 1..Len(alts) : i # j => alts[i].ref.ver # alts[j].ref.ver

\* the segments of a version as numbers
VersionNumbers(v) == [i \in 1..Len(v.segs) |-> seg_value(v.segs[i])]

\* a is below b, their segments compared as numbers from the left, a
\* missing segment counting as 0
RECURSIVE NumbersBelow(_, _)
NumbersBelow(a, b) ==
    IF b = <<>> THEN FALSE
    ELSE IF a = <<>> THEN \E i \in 1..Len(b) : b[i] > 0
    ELSE IF a[1] # b[1] THEN a[1] < b[1]
    ELSE NumbersBelow(Tail(a), Tail(b))

\* the reference among alts whose version is numerically highest
HighestRef(alts) ==
    CHOOSE r \in { alts[i].ref : i \in 1..Len(alts) } :
        \A i \in 1..Len(alts) :
            ~ NumbersBelow(VersionNumbers(r.ver), VersionNumbers(alts[i].ref.ver))

\* the alternatives alts without the null ones
NonNull(alts) == SelectSeq(alts, LAMBDA x : ~ is_null_alternative(x))

\* the call's definition is a union whose non-null alternatives are
\* references to versions of one target
IsVersionUnion ==
    /\ "anyOf" \in DOMAIN args.prop_info /\ "ref" \notin DOMAIN args.prop_info
    /\ VersionsOfOneTarget(NonNull(args.prop_info.anyOf))

\* the call's union has a null alternative
HasNullAlternative ==
    \E i \in 1..Len(args.prop_info.anyOf) : is_null_alternative(args.prop_info.anyOf[i])

\* what the same call leaves for the one reference r in place of the
\* union: the alternative [$ref: r] with what the union says of itself
Alone(r) ==
    extend_property_info(args.schema_ref,
                         carry_parent_props(args.prop_info, [ref |-> r]),
                         args.context_meta, EmptyDict, 1)

\* the call has left what resolving the highest version alone leaves: the
\* same elements (the first marked nullable when the union has a null
\* alternative), pool and warnings
SameAsHighestAlone ==
    LET alone == Alone(HighestRef(NonNull(args.prop_info.anyOf)))
    IN /\ ret.err = alone.err
       /\ ret.infos = IF HasNullAlternative /\ alone.infos # <<>>
                      THEN <<marked_nullable(alone.infos[1])>> \o Tail(alone.infos)
                      ELSE alone.infos
       /\ common_properties = alone.common
       /\ warned = alone.warned

\* C3: for a union whose non-null alternatives are all references to
\* versions of the same unversioned target, extend_property_info returns
\* exactly what it returns for the single reference with the numerically
\* highest version (1.10.0 above 1.9.0), so no older version contributes
\* an element.
C3_NewestVersionAlone == (ExtendDone /\ IsVersionUnion) => SameAsHighestAlone

\* what holds of these unions: when the first alternative is a reference,
\* the call leaves what resolving the highest version alone leaves
NewestVersionAloneAfterReference ==
    (ExtendDone /\ IsVersionUnion /\ "ref" \in DOMAIN args.prop_info.anyOf[1])
        => SameAsHighestAlone

\* of State 1.9.0, 1.10.0 and 1.0.0 the one element returned is State
\* 1.10.0
NewestVersionReturned ==
    /\ ExtendDone /\ IsVersionUnion
    /\ args.prop_info.anyOf = << [ref |-> Ref(N_Resource, Ver_1_9_0, N_State)],
                                 [ref |-> Ref(N_Resource, Ver_1_10_0, N_State)],
                                 [ref |-> Ref(N_Resource, Ver_1_0_0, N_State)] >>
    /\ Len(ret.infos) = 1
    /\ ret.infos[1]._ref_uri = Ref(N_Resource, Ver_1_10_0, N_State)

\* the call's definition is a union of references to versions of one
\* target and, in some position, a null alternative
NullableVersionUnion == IsVersionUnion /\ HasNullAlternative

\* C4: for a union of references to versions of one target that also has a
\* null alternative, extend_property_info followed by parse_property_info
\* yields nullable = true with "null" not among the types; and whenever an
\* interpreted result is nullable, "null" is not among its types.
C4_NullBecomesNullable ==
    /\ (ExtendDone /\ NullableVersionUnion) => ret.err = ""
    /\ (pc = "parsed" /\ NullableVersionUnion) =>
          /\ parsed.err = ""
          /\ parsed.nullable
          /\ T_null \notin Range(parsed.prop_type)
    /\ (pc = "parsed" /\ parsed.err = "" /\ parsed.nullable) =>
          T_null \notin Range(parsed.prop_type)

\* the part of C4 that every reachable state satisfies: a nullable
\* interpreted result does not list "null" among its types
NullableExcludesNull ==
    (pc = "parsed" /\ parsed.err = "" /\ parsed.nullable) =>
        T_null \notin Range(parsed.prop_type)

\* C14: the engine never mutates the shared corpus: after
\* extend_property_info has returned, the definition it was given, which
\* generate_output takes from property_data, is equal to its value as
\* loaded.
C14_CorpusUnchanged ==
    (ExtendDone /\ ret.err = "") => ret.prop_info = args.prop_info

\* what holds of these calls: the definition given, as the call left it,
\* resolves to the same elements again
ResolvedAgainSame ==
    (ExtendDone /\ ret.err = "") =>
        extend_property_info(args.schema_ref, ret.prop_info, args.context_meta,
                             EmptyDict, 1).infos = ret.infos

\* the call's definition is a union without alternatives
EmptyUnion ==
    /\ "anyOf" \in DOMAIN args.prop_info /\ "ref" \notin DOMAIN args.prop_info
    /\ args.prop_info.anyOf = <<>>

CyclicReference ==
    /\ "ref" \in DOMAIN args.prop_info
    /\ FullRef(args.schema_ref, args.prop_info.ref) = Ref(N_Thing, NoVer, N_Loop)

\* C17: when the chain of references of a definition leads back to itself,
\* extend_property_info stops at a depth bound and skips the property with
\* a warning: it returns, without raising, and has warned.
C17_CycleSkippedWithWarning ==
    (ExtendDone /\ CyclicReference) => ret.err = "" /\ warned # {}

\* what the call does for the cycle: it raises RecursionError, and has
\* warned of nothing
CycleRaises ==
    (ExtendDone /\ CyclicReference) => ret.err = "RecursionError" /\ warned = {}

\* the call's definition is a union that has a null alternative and at
\* least one other alternative
NullAndOther ==
    /\ "anyOf" \in DOMAIN args.prop_info /\ "ref" \notin DOMAIN args.prop_info
    /\ HasNullAlternative
    /\ NonNull(args.prop_info.anyOf) # <<>>

\* info is marked nullable, with "null" in its type
NullFolded(info) ==
    /\ Get(info, "nullable", FALSE) = TRUE
    /\ "type" \in DOMAIN info
    /\ \/ info.type = T_null
       \/ info.type.kind = "list" /\ T_null \in Range(info.type.l)

\* the null alternative is an element of infos
NullElement(infos) ==
    \E i \in 1..Len(infos) : Get(infos[i], "type", TNone) = T_null

\* the first element is marked nullable and no other element is the null
\* alternative
NullTakenIn(infos) ==
    /\ infos # <<>>
    /\ NullFolded(infos[1])
    /\ ~ NullElement(Tail(infos))

\* C19: for every union that has a null alternative and at least one other
\* alternative, whether or not an alternative is a reference,
\* extend_property_info marks the first element of its result nullable with
\* "null" folded into its type, and the null alternative is not an element
\* of the result.
C19_NullFoldedIntoFirst ==
    (ExtendDone /\ NullAndOther) => (ret.err = "" /\ NullTakenIn(ret.infos))

\* some alternative of the call's union is a reference, none to idRef
ReferenceAmongAlternatives ==
    /\ \E i \in 1..Len(args.prop_info.anyOf) : "ref" \in DOMAIN args.prop_info.anyOf[i]
    /\ \A i \in 1..Len(args.prop_info.anyOf) :
          "ref" \in DOMAIN args.prop_info.anyOf[i]
              => args.prop_info.anyOf[i].ref.frag # N_idRef

\* what holds: when an alternative is a reference, none is to idRef, and the
\* call returns, the null alternative is taken into the first element
NullFoldedBesideReference ==
    (ExtendDone /\ NullAndOther /\ ReferenceAmongAlternatives /\ ret.err = "")
        => NullTakenIn(ret.infos)

\* what holds: with one other alternative, which is not a reference, the
\* null alternative is an element of the result and no element is marked
NullKeptWithoutReference ==
    (ExtendDone /\ NullAndOther /\ Len(NonNull(args.prop_info.anyOf)) = 1
       /\ \A i \in 1..Len(args.prop_info.anyOf) : "ref" \notin DOMAIN args.prop_info.anyOf[i])
        => /\ ret.err = ""
           /\ NullElement(ret.infos)
           /\ \A i \in 1..Len(ret.infos) : "nullable" \notin DOMAIN ret.infos[i]

\* alts are references to versions of one unversioned target
OneTarget(alts) ==
    /\ \A i \in 1..Len(alts) :
          /\ "ref" \in DOMAIN alts[i]
          /\ alts[i].ref.kind = "ref"
          /\ alts[i].ref.ver # NoVer
    /\ \A i, j \in 1..Len(alts) :
          [alts[i].ref EXCEPT !.ver = NoVer] = [alts[j].ref EXCEPT !.ver = NoVer]

\* no alternative of alts is a reference to idRef (lines 630-638)
NoIdRef(alts) ==
    \A i \in 1..Len(alts) : "ref" \in DOMAIN alts[i] => alts[i].ref.frag # N_idRef

\* the call's definition is a union with two or more non-null alternatives
\* that are not all references to versions of one target: references to
\* different targets, or references and alternatives written in place
SeveralTargets ==
    /\ "anyOf" \in DOMAIN args.prop_info /\ "ref" \notin DOMAIN args.prop_info
    /\ Len(NonNull(args.prop_info.anyOf)) >= 2
    /\ NoIdRef(args.prop_info.anyOf)
    /\ ~ OneTarget(NonNull(args.prop_info.anyOf))

\* what resolving the alternatives alts one after the other leaves, each as
\* the loop of lines 843-851 hands it on; a reference takes what the union
\* says of itself
RECURSIVE EachResolved(_, _)
EachResolved(alts, pool) ==
    IF alts = <<>> THEN [err |-> "", infos |-> <<>>, common |-> pool]
    ELSE LET first == extend_property_info(
                          args.schema_ref,
                          IF "ref" \in DOMAIN alts[1]
                          THEN carry_parent_props(args.prop_info, alts[1])
                          ELSE alts[1],
                          args.context_meta, pool, 1)
             rest == EachResolved(Tail(alts), first.common)
         IN [err |-> IF first.err # "" THEN first.err ELSE rest.err,
             infos |-> first.infos \o rest.infos,
             common |-> rest.common]

\* the elements with the marks of a nullable union taken off the first
Unmarked(infos) ==
    IF infos # <<>> /\ "nullable" \in DOMAIN infos[1]
    THEN << [k \in DOMAIN infos[1] \ {"nullable"} |->
               IF k = "type" /\ infos[1].type.kind = "list"
               THEN infos[1].type.l[1] ELSE infos[1][k]] >> \o Tail(infos)
    ELSE infos

\* the result is the resolved non-null alternatives in order, none dropped
AllAlternativesResolved ==
    LET each == EachResolved(NonNull(args.prop_info.anyOf), EmptyDict)
    IN /\ ret.err = each.err
       /\ each.err = "" =>
             \/ ret.infos = each.infos
             \/ Unmarked(ret.infos) = each.infos

\* C20: the collapse to the newest version happens only when all non-null
\* alternatives are references to versions of one unversioned target; for
\* references to different targets, or references mixed with alternatives
\* written in place, each non-null alternative is resolved on its own and
\* the result is their resolved sequences one after the other, so that no
\* alternative is dropped.
C20_OtherwiseConcatenated ==
    (ExtendDone /\ SeveralTargets) => AllAlternativesResolved

\* every non-null alternative of the call's union is a reference
OnlyReferences ==
    \A i \in 1..Len(args.prop_info.anyOf) :
        \/ is_null_alternative(args.prop_info.anyOf[i])
        \/ "ref" \in DOMAIN args.prop_info.anyOf[i]

\* what holds: references to different targets, after a first alternative
\* that is one of them, are resolved each on its own, in order
DifferentTargetsConcatenated ==
    (ExtendDone /\ SeveralTargets /\ OnlyReferences
       /\ "ref" \in DOMAIN args.prop_info.anyOf[1])
        => AllAlternativesResolved

\* a reference and, after it, an alternative written in place
ReferenceThenInPlace ==
    /\ ExtendDone /\ SeveralTargets
    /\ Len(args.prop_info.anyOf) = 2
    /\ args.prop_info.anyOf[1] = [ref |-> Ref(N_Resource, Ver_1_9_0, N_State)]
    /\ args.prop_info.anyOf[2] = [type |-> T_string]

\* what holds: the one element returned for them is the reference's
InPlaceDropped ==
    ReferenceThenInPlace =>
        /\ ret.err = ""
        /\ Len(ret.infos) = 1
        /\ ret.infos[1]._ref_uri = Ref(N_Resource, Ver_1_9_0, N_State)

\* the call's definition is a direct reference, not to idRef, that
\* find_ref_data resolves to a definition without a reference or
\* alternatives of its own
Referent == find_ref_data(FullRef(args.schema_ref, args.prop_info.ref))

DirectReference ==
    /\ "ref" \in DOMAIN args.prop_info
    /\ ~ ref_is_idRef(args.prop_info.ref)
    /\ "anyOf" \notin DOMAIN args.prop_info
    /\ Referent.found
    /\ "ref" \notin DOMAIN Referent.info /\ "anyOf" \notin DOMAIN Referent.info

\* the referent is of the caller's schema: its _from_schema_ref is
\* schema_ref, or is a version of it
SameSchema ==
    \/ Referent.info._from_schema_ref = args.schema_ref
    \/ make_unversioned_ref(Referent.info._from_schema_ref) = args.schema_ref

\* the caller's metadata: the definition's own
OwnMeta == Get(args.prop_info, "_doc_generator_meta", EmptyMeta)

\* the referent's metadata
ReferentMeta == Get(Referent.info, "_doc_generator_meta", EmptyMeta)

\* the metadata inherited for the referenced node is merged into m
WithInherited(m) ==
    merge_metadata(get_node_from_ref(FullRef(args.schema_ref, args.prop_info.ref)), m,
                   args.context_meta)

SameSchemaMerged ==
    /\ ExtendDone /\ DirectReference /\ SameSchema
    /\ merge_full_metadata(OwnMeta, ReferentMeta) # OwnMeta
    /\ ret.infos[1]._doc_generator_meta = WithInherited(merge_full_metadata(OwnMeta, ReferentMeta))

\* without inherited metadata for the node, the metadata of a reference to
\* another schema is the definition's own
OwnMetaKept ==
    (ExtendDone /\ DirectReference /\ ~ SameSchema /\ args.context_meta = EmptyMeta)
        => ret.infos[1]._doc_generator_meta = OwnMeta

\* the call's definition is a reference that resolves to an object of
\* another documented schema, of a collection, or to the main object of the
\* caller's own schema
LinkReference ==
    /\ DirectReference
    /\ Get(Referent.info, "type", TNone) = T_object
    /\ LET from == Referent.info._from_schema_ref
       IN \/ ~ SameSchema /\ is_documented_schema(from)
          \/ ~ SameSchema /\ ref_truthy(is_collection_of(from))
          \/ SameSchema /\ Get(Referent.info, "_prop_name", <<>>)
                              = get_schema_name(args.schema_ref)

\* info has no properties, or the one property @odata.id, a read-only
\* string
OnlyLinkProperty(info) ==
    "properties" \in DOMAIN info =>
        /\ Len(info.properties) = 1
        /\ info.properties[1].k = N_odata_id
        /\ info.properties[1].v.type = T_string
        /\ info.properties[1].v.readonly = TRUE

\* the text under key of info is the referent's, unless the referencing
\* definition has a text of its own there
TextOfReferent(info, key) ==
    info[key] = IF str_truthy(Get(args.prop_info, key, PyNone))
                THEN args.prop_info[key]
                ELSE Get(apply_overrides(Referent.info, <<>>, <<>>), key, PyNone)

\* C22: a reference that resolves to an object which is a link to another
\* documented resource, to a collection, or to the caller's own resource
\* type never carries the properties of its target: the resolved definition
\* has no properties or the one read-only property @odata.id, with the
\* description and pattern of the target.
C22_LinkWithoutTargetProperties ==
    (ExtendDone /\ LinkReference) =>
        /\ ret.err = "" /\ Len(ret.infos) = 1
        /\ OnlyLinkProperty(ret.infos[1])
        /\ TextOfReferent(ret.infos[1], "description")
        /\ TextOfReferent(ret.infos[1], "pattern")

\* a reference to Chassis, whose definition has the property Id: the result
\* has the property @odata.id alone and the description of Chassis
C22_Witness ==
    /\ ExtendDone /\ LinkReference
    /\ args.prop_info = [ref |-> Ref(N_Chassis, NoVer, N_Chassis)]
    /\ Referent.info.properties # <<>>
    /\ Referent.info.properties[1].k = N_Id
    /\ "properties" \in DOMAIN ret.infos[1]
    /\ ret.infos[1].properties[1].k = N_odata_id
    /\ ret.infos[1].description = Referent.info.description

\* the three kinds of link are resolved
CollectionLinked ==
    ExtendDone /\ LinkReference /\ ref_truthy(is_collection_of(Referent.info._from_schema_ref))

OwnTypeLinked == ExtendDone /\ LinkReference /\ SameSchema

\* the call's definition is a reference to an object of another schema that
\* is not documented and is not a collection: a common object
CommonObjectReference ==
    /\ DirectReference
    /\ Get(Referent.info, "type", TNone) = T_object
    /\ ~ SameSchema
    /\ ~ is_documented_schema(Referent.info._from_schema_ref)
    /\ ~ ref_truthy(is_collection_of(Referent.info._from_schema_ref))

\* C23: with wants_common_objects switched off, a reference to an object
\* defined in another schema that is not documented is inlined: the
\* resolved definition keeps the properties of its target, and the pool of
\* common objects is left unchanged.
C23_InlinedWithoutCommonObjects ==
    (ExtendDone /\ CommonObjectReference /\ ~ config.wants_common_objects) =>
        /\ ret.err = "" /\ Len(ret.infos) = 1
        /\ "properties" \in DOMAIN ret.infos[1]
        /\ ret.infos[1].properties = Referent.info.properties
        /\ common_properties = EmptyDict

\* what holds: with wants_common_objects switched off the pool is left
\* unchanged, and the resolved definition has no properties but a note that
\* points to the schema of its target
NotedWithoutCommonObjects ==
    (ExtendDone /\ CommonObjectReference /\ ~ config.wants_common_objects) =>
        /\ ret.err = "" /\ Len(ret.infos) = 1
        /\ "properties" \notin DOMAIN ret.infos[1]
        /\ ret.infos[1].add_link_text =
              LinkText("See the {n} schema for details on this property.",
                       link_to_own_schema(Referent.info._from_schema_ref), <<>>, NoVer)
        /\ common_properties = EmptyDict

\* what holds: with wants_common_objects switched on the object is in the
\* pool
PooledWithCommonObjects ==
    (ExtendDone /\ CommonObjectReference /\ config.wants_common_objects) =>
        common_properties # EmptyDict

\* the call's definition is a reference, or a union whose alternatives are
\* references and null
ReferenceOrUnionOfThem ==
    \/ "ref" \in DOMAIN args.prop_info
    \/ /\ "anyOf" \in DOMAIN args.prop_info
       /\ NonNull(args.prop_info.anyOf) # <<>>
       /\ OnlyReferences

\* the carried fields that the referencing definition has
CarriedKeys == (DOMAIN args.prop_info) \cap parent_props

\* info has the referencing definition's value under x
HasOwnValue(info, x) == x \in DOMAIN info /\ info[x] = args.prop_info[x]

\* C24: for each carried field (description, longDescription,
\* fulldescription_override, pattern, readonly, the required flags) that
\* the referencing definition has, the resolved definition has the
\* referencing definition's value and not the target's, also when that
\* value is false or empty, and also when the reference is an alternative
\* of a union.
C24_ReferencingValueKept ==
    (ExtendDone /\ ReferenceOrUnionOfThem /\ ret.err = "") =>
        \A i \in 1..Len(ret.infos) : \A x \in CarriedKeys :
            HasOwnValue(ret.infos[i], x)

\* what holds: a value of the referencing definition that is neither false
\* nor empty is the resolved definition's, of a reference and of the
\* references of a union
TruthyValueKept ==
    (ExtendDone /\ ReferenceOrUnionOfThem /\ ret.err = "") =>
        \A i \in 1..Len(ret.infos) : \A x \in CarriedKeys :
            prop_truthy(args.prop_info, x) => HasOwnValue(ret.infos[i], x)

\* an empty description of the referencing definition gives way to the
\* target's
EmptyValueLost ==
    /\ ExtendDone /\ DirectReference
    /\ "description" \in DOMAIN args.prop_info /\ args.prop_info.description = ""
    /\ ret.infos[1].description = Referent.info.description
    /\ Referent.info.description # ""

----------------------------------------------------------------------------
(* C28: the interpretation of several alternatives                         *)

\* parse_property_info was called on a list of two or more definitions
SeveralInterpreted ==
    /\ op = "extend_property_info" /\ pc = "parsed"
    /\ Len(ret.infos) >= 2

\* some definition of the list is of type t
SomeOfType(t) ==
    \E i \in 1..Len(ret.infos) :
        LET given == Get(ret.infos[i], "type", TList(<<>>))
        IN IF given.kind = "list" THEN t \in Range(given.l) ELSE given = t

\* the property has an entry in the profile
HasProfileEntry ==
    /\ config.profile_mode # ""
    /\ args.schema_ref \in DOMAIN config.profile_resources

\* C28: interpreting a property that resolved to two or more alternatives
\* always returns a result, in every conformance mode and whether or not
\* the property has a profile entry, and in the result prop_is_object and
\* prop_is_array are true exactly when some alternative is an object or an
\* array (the detail blocks, which lines 1067-1075 gather in the same loop as
\* the flags, are not followed).
C28_AlternativesInterpreted ==
    SeveralInterpreted =>
        /\ parsed.err = ""
        /\ parsed.prop_is_object <=> SomeOfType(T_object)
        /\ parsed.prop_is_array <=> SomeOfType(T_array)

\* what holds: without a profile entry the call returns, and the flags are
\* false whatever the alternatives are
FlagsLeftFalse ==
    (SeveralInterpreted /\ ~ HasProfileEntry) =>
        /\ parsed.err = ""
        /\ ~ parsed.prop_is_object
        /\ ~ parsed.prop_is_array

\* what holds: with a profile entry the call raises AttributeError
RaisedWithProfileEntry ==
    (SeveralInterpreted /\ HasProfileEntry) => parsed.err = "AttributeError"

\* an object among the alternatives interpreted without a profile entry
ObjectAmongAlternatives ==
    SeveralInterpreted /\ ~ HasProfileEntry /\ SomeOfType(T_object)

\* alternatives interpreted with a profile entry
AlternativesWithProfileEntry ==
    SeveralInterpreted /\ HasProfileEntry

\* alternatives interpreted in a conformance mode without a profile entry
AlternativesInModeWithoutEntry ==
    SeveralInterpreted /\ config.profile_mode # "" /\ ~ HasProfileEntry /\ parsed.err = ""

----------------------------------------------------------------------------
(* C29: the order of the alternatives of a union                           *)

\* the alternatives alts in every order
Reordered(alts) ==
    { [i \in 1..Len(alts) |-> alts[f[i]]] : f \in Permutations(1..Len(alts)) }

\* what the same call leaves for the union with its alternatives in the
\* order of alts
ResolvedInOrder(alts) ==
    extend_property_info(args.schema_ref, [args.prop_info EXCEPT !.anyOf = alts],
                         args.context_meta, EmptyDict, 1)

\* C29: the result of resolving a union does not depend on the order of its
\* alternatives: for every permutation of the same alternatives, the ones
\* where the null alternative comes first or between the references
\* included, extend_property_info completes and selects the same reference
\* (the highest version) with the same nullable marking.
C29_OrderOfAlternatives ==
    (ExtendDone /\ IsVersionUnion) =>
        /\ ret.err = ""
        /\ \A alts \in Reordered(args.prop_info.anyOf) :
              LET other == ResolvedInOrder(alts)
              IN other.err = "" /\ other.infos = ret.infos

\* what holds: the orders whose first alternative is a reference all
\* complete, and leave the same
ReferenceFirstOrdersAgree ==
    (ExtendDone /\ IsVersionUnion /\ "ref" \in DOMAIN args.prop_info.anyOf[1]) =>
        /\ ret.err = ""
        /\ \A alts \in Reordered(args.prop_info.anyOf) :
              "ref" \in DOMAIN alts[1] =>
                  LET other == ResolvedInOrder(alts)
                  IN other.err = "" /\ other.infos = ret.infos

\* what holds: an order whose first alternative is the null alternative
\* raises UnboundLocalError
NullFirstRaises ==
    (ExtendDone /\ IsVersionUnion /\ is_null_alternative(args.prop_info.anyOf[1]))
        => ret.err = "UnboundLocalError"

\* a union of two versions of one target with the null alternative first
NullFirstOrder ==
    /\ ExtendDone /\ IsVersionUnion
    /\ Len(args.prop_info.anyOf) = 3
    /\ is_null_alternative(args.prop_info.anyOf[1])
    /\ ret.err = "UnboundLocalError"

\* the same alternatives with the null alternative between the references:
\* the call completes
NullBetweenOrder ==
    /\ ExtendDone /\ IsVersionUnion
    /\ Len(args.prop_info.anyOf) = 3
    /\ is_null_alternative(args.prop_info.anyOf[2])
    /\ ret.err = ""
----------------------------------------------------------------------------
(* The common-object pool over the properties of several schemas.          *)

\* the properties resolved one after the other: references from two
\* schemas to the versions of two common objects, and to other things
PoolCalls ==
    [schema_ref : {ThingSchema, ChassisSchema},
     prop_name : {N_State},
     prop_info : { [ref |-> r] :
                     r \in { Ref(N_Resource, v, N_Status) : v \in {Ver_1_0_0, Ver_1_10_0, NoVer} }
                           \cup { Ref(N_Resource, v, N_Sub) : v \in {Ver_1_0_0, Ver_1_9_0} }
                           \cup { Ref(N_Resource, Ver_1_9_0, N_State),
                                  Ref(N_Chassis, NoVer, N_Chassis) } },
     context_meta : {EmptyMeta}]

\* parsed keeps the arguments of the call before this one
InitPool ==
    /\ Idle
    /\ op = "extend_property_info"
    /\ config \in { [DefaultConfig EXCEPT !.wants_common_objects = w] : w \in BOOLEAN }
    /\ args \in PoolCalls

\* the next property is resolved with the pool as the last one left it
NextProperty ==
    /\ pc = "done" /\ op = "extend_property_info"
    /\ args' \in PoolCalls
    /\ pc' = "call"
    /\ ret' = <<>>
    /\ parsed' = args
    /\ UNCHANGED <<config, op, common_properties, warned>>

NextPool == ExtendPropertyInfo \/ NextProperty

SpecPool == InitPool /\ [][NextPool]_vars

\* the key of the common object the call refers to
CommonKey == [args.prop_info.ref EXCEPT !.ver = NoVer]

\* the call has resolved a reference, from another schema, to an object of
\* the schema Resource, which is not documented
CommonObjectResolved ==
    /\ pc = "done" /\ op = "extend_property_info" /\ ret.err = ""
    /\ config.wants_common_objects
    /\ args.prop_info.ref.schema = N_Resource
    /\ args.prop_info.ref.frag \in {N_Status, N_Sub}

\* every key of the pool is a reference without a version, and the common
\* object just resolved is in the pool under its reference without version
PoolKeyedUnversioned ==
    /\ \A k \in DOMAIN common_properties : k.ver = NoVer
    /\ CommonObjectResolved => CommonKey \in DOMAIN common_properties

\* what is in the pool stays in it as it is
PoolEntriesKept ==
    \A k \in DOMAIN common_properties :
        /\ k \in DOMAIN common_properties'
        /\ common_properties'[k] = common_properties[k]

\* C13: after two schemas have referred to the same common object, through
\* the same or different versions, the pool has exactly one entry for it,
\* under the reference without version; a later discovery neither adds a
\* second entry nor replaces the first.
C13_OnePoolEntry == [] PoolKeyedUnversioned /\ [][PoolEntriesKept]_vars

\* Thing has referred to Sub 1.9.0 and Chassis then to Sub 1.0.0: the pool
\* has the one entry, the first one
C13_Witness ==
    /\ CommonObjectResolved
    /\ parsed # <<>>
    /\ parsed.schema_ref = ThingSchema /\ args.schema_ref = ChassisSchema
    /\ parsed.prop_info.ref = Ref(N_Resource, Ver_1_9_0, N_Sub)
    /\ args.prop_info.ref = Ref(N_Resource, Ver_1_0_0, N_Sub)
    /\ DOMAIN common_properties = {Ref(N_Resource, NoVer, N_Sub)}
    /\ common_properties[Ref(N_Resource, NoVer, N_Sub)].description = "1.9.0"
----------------------------------------------------------------------------
(* A generation run: generate_output for a schema, generate_fragment_doc   *)
(* for a fragment, generate_common_properties_doc for the pool.            *)

\* the sentences of lines 752-758
CommonObjectSentences ==
    { "See the {n} object (v{v}) for details on this property.",
      "See the {ref_key} (v{v}) for details on this property.",
      "See the {n} object for details on this property.",
      "See the {ref_key} for details on this property." }

\* the keys that the notes of infos point to: link_to_common_property is
\* called with the reference, without version, of the object the note is
\* about
noted_keys(infos) ==
    { Ref(infos[i]._from_schema_ref.schema, NoVer, infos[i]._prop_name) :
        i \in { j \in 1..Len(infos) :
                  /\ "add_link_text" \in DOMAIN infos[j]
                  /\ infos[j].add_link_text.t \in CommonObjectSentences } }

\* the keys that the notes in rows point to
noted_in_rows(rows) == UNION { noted_keys(rows[i].prop_infos) : i \in 1..Len(rows) }

\* what documenting leaves: the exception raised, the keys the notes
\* emitted point to, the pool of the formatter that documented
Documented(err, notes, pool) == [err |-> err, notes |-> notes, common |-> pool]

\* the notes of what was documented first, and what documenting the rest
\* left
documented_joined(notes, rest) == Documented(rest.err, notes \cup rest.notes, rest.common)

RECURSIVE infos_documented(_, _, _, _)

\* d is what format_object_descr left for the first of infos
info_documented(schema_ref, infos, hash_order, d) ==
    IF d.err # "" THEN Documented(d.err, {}, d.common)
    ELSE documented_joined(noted_in_rows(d.rows),
                           infos_documented(schema_ref, Tail(infos), hash_order,
                                            d.common))

\* format_property_row(schema_ref, prop_name, prop_infos, prop_path), which
\* the formatters supply, interprets the definitions; lines 1264-1274
\* describe the properties of each that is an object
infos_documented(schema_ref, infos, hash_order, pool) ==
    IF infos = <<>> THEN Documented("", {}, pool)
    ELSE IF Get(infos[1], "type", TNone) = T_object /\ "properties" \in DOMAIN infos[1]
    THEN info_documented(schema_ref, infos, hash_order,
                         format_object_descr(schema_ref, infos[1], <<>>, FALSE,
                                             hash_order, pool))
    ELSE infos_documented(schema_ref, Tail(infos), hash_order, pool)

\* r is what extend_property_info left for a property: its notes, and what
\* its row adds
property_documented(schema_ref, hash_order, r) ==
    IF r.err # "" THEN Documented(r.err, {}, r.common)
    ELSE documented_joined(noted_keys(r.infos),
                           infos_documented(schema_ref, r.infos, hash_order, r.common))

RECURSIVE properties_documented(_, _, _, _)

\* p is what documenting the first of properties left
properties_joined(schema_ref, properties, hash_order, p) ==
    IF p.err # "" THEN p
    ELSE documented_joined(p.notes,
                           properties_documented(schema_ref, Tail(properties),
                                                 hash_order, p.common))

\* lines 386-398 of generate_output: the properties of a schema, one after
\* the other
properties_documented(schema_ref, properties, hash_order, pool) ==
    IF properties = <<>> THEN Documented("", {}, pool)
    ELSE properties_joined(
             schema_ref, properties, hash_order,
             property_documented(
                 schema_ref, hash_order,
                 extend_property_info(
                     schema_ref,
                     [prop_required |-> FALSE, prop_required_on_create |-> FALSE,
                      parent_requires |-> <<>>, parent_requires_on_create |-> <<>>,
                      required_parameter |-> FALSE] @@ properties[1].v,
                     EmptyMeta, pool, 1)))

\* lines 429-494: generate_fragment_doc(ref, config); frag_gen is given the
\* pool of the formatter (line 464)
fragment_documented(hash_order, pool, prop_info) ==
    IF ~ prop_info.found THEN Documented("", {}, pool)
    ELSE property_documented(
             prop_info.info._from_schema_ref, hash_order,
             extend_property_info(prop_info.info._from_schema_ref, prop_info.info,
                                  EmptyMeta, pool, 1))

\* the pool a formatter is constructed with (line 33)
new_pool(shared) == EmptyDict

\* a formatter constructed with the pool of the formatter that makes it
shared_pool(shared) == shared

\* line 509: the keys of the pool in the order of sortkey
sorted_properties(pool) ==
    LET names == list_sort(list_of_set({ k.frag : k \in DOMAIN pool },
                                       <<N_Pair, N_Status, N_Sub>>))
    IN [i \in 1..Len(names) |-> CHOOSE k \in DOMAIN pool : k.frag = names[i]]

RECURSIVE common_documented(_, _, _, _)

\* p is what documenting the first of keys left
common_joined(entries, keys, hash_order, p) ==
    IF p.err # "" THEN p
    ELSE documented_joined(p.notes,
                           common_documented(entries, Tail(keys), hash_order, p.common))

\* lines 511-575: the loop of generate_common_properties_doc over the
\* entries of the pool, as they were at line 509; cp_pool is the pool of
\* cp_gen
common_documented(entries, keys, hash_order, cp_pool) ==
    IF keys = <<>> THEN Documented("", {}, cp_pool)
    ELSE IF skip_schema(entries[keys[1]]._prop_name)
    THEN common_documented(entries, Tail(keys), hash_order, cp_pool)
    ELSE common_joined(
             entries, keys, hash_order,
             property_documented(
                 entries[keys[1]]._from_schema_ref, hash_order,
                 extend_property_info(entries[keys[1]]._from_schema_ref,
                                      entries[keys[1]], EmptyMeta, cp_pool, 1)))

\* generate_common_properties_doc(): cp_gen is a formatter of its own,
\* constructed at line 502
generate_common_properties_doc(pool, hash_order) ==
    common_documented(pool, sorted_properties(pool), hash_order, new_pool(pool))

\* the properties a documented schema may have, by name
RunDefs ==
    { [ref |-> Ref(N_Resource, Ver_1_10_0, N_Status)],
      [ref |-> Ref(N_Resource, Ver_1_0_0, N_Pair)],
      [ref |-> Ref(N_Resource, Ver_1_9_0, N_Sub)],
      [ref |-> Local(N_Sub)],
      [type |-> T_string] }

RunNames == <<N_Id, N_name, N_Status, N_Reset>>

RunProperties ==
    { [i \in 1..Len(s) |-> Entry(RunNames[i], s[i])] : s \in SeqsUpTo(RunDefs, MaxNames) }

\* the fragments a run may document
RunFragments ==
    { Ref(N_Resource, Ver_1_0_0, N_Pair), Ref(N_Resource, Ver_1_9_0, N_Sub),
      Ref(N_Thing, NoVer, N_Color), Ref(N_Missing, Ver_1_0_0, N_Missing) }

\* ret holds the keys that the notes emitted so far point to, and the pool
\* of cp_gen
InitRun ==
    /\ Idle
    /\ op = "generate_output"
    /\ config \in { [DefaultConfig EXCEPT !.wants_common_objects = w] : w \in BOOLEAN }
    /\ args \in [schema_ref : {ThingSchema, ChassisSchema},
                  properties : RunProperties,
                  fragment : RunFragments,
                  hash_order : {<<N_Status, N_Id, N_name, N_odata_id, N_TReset, N_Sub>>}]

\* generate_output(): the properties of the schema are documented
GenerateOutputRun ==
    /\ pc = "call" /\ op = "generate_output"
    /\ \E p \in { properties_documented(args.schema_ref, args.properties,
                                        args.hash_order, common_properties) } :
          /\ ret' = [err |-> p.err, notes |-> p.notes, cp |-> EmptyDict]
          /\ common_properties' = p.common
    /\ pc' = "output"
    /\ UNCHANGED <<config, op, args, parsed, warned>>

\* generate_fragment_doc(ref, config): a fragment is documented
GenerateFragmentDoc ==
    /\ pc = "output" /\ ret.err = ""
    /\ \E p \in { fragment_documented(args.hash_order, shared_pool(common_properties),
                                      find_ref_data(args.fragment)) } :
          /\ ret' = [err |-> p.err, notes |-> ret.notes \cup p.notes, cp |-> EmptyDict]
          /\ common_properties' = p.common
    /\ pc' = "fragment"
    /\ UNCHANGED <<config, op, args, parsed, warned>>

\* generate_common_properties_doc(): the section of the common objects
GenerateCommonPropertiesDoc ==
    /\ pc = "fragment" /\ ret.err = ""
    /\ \E p \in { generate_common_properties_doc(common_properties, args.hash_order) } :
          ret' = [err |-> p.err, notes |-> ret.notes \cup p.notes, cp |-> p.common]
    /\ pc' = "ended"
    /\ UNCHANGED <<config, op, args, parsed, common_properties, warned>>

NextRun == GenerateOutputRun \/ GenerateFragmentDoc \/ GenerateCommonPropertiesDoc

SpecRun == InitRun /\ [][NextRun]_vars

\* the run has ended
RunEnded == op = "generate_output" /\ pc = "ended" /\ ret.err = ""

\* C27: one pool of common objects is shared by a whole run: every note
\* that points to a common object, the notes emitted while fragments and
\* the section of the common objects are generated included, points to a
\* key that is in the run's pool (self.common_properties) when the run
\* ends.
C27_NotesPointIntoSharedPool ==
    RunEnded => ret.notes \subseteq DOMAIN common_properties

\* what holds: before the section of the common objects is generated, the
\* notes of the schema and of the fragment point into the run's pool
NotesBeforeCommonSection ==
    (op = "generate_output" /\ pc \in {"output", "fragment"} /\ ret.err = "")
        => ret.notes \subseteq DOMAIN common_properties

\* what holds: when the run has ended every note points into the run's pool
\* or into the pool of cp_gen
NotesInEitherPool ==
    RunEnded => ret.notes \subseteq (DOMAIN common_properties) \cup (DOMAIN ret.cp)

\* the common object Pair is in the run's pool, and its property Sub, which
\* the section of the common objects has a note for, is in the pool of
\* cp_gen alone
NoteIntoOtherPool ==
    /\ RunEnded
    /\ Ref(N_Resource, NoVer, N_Pair) \in DOMAIN common_properties
    /\ Ref(N_Resource, NoVer, N_Sub) \in ret.notes
    /\ Ref(N_Resource, NoVer, N_Sub) \notin DOMAIN common_properties
    /\ Ref(N_Resource, NoVer, N_Sub) \in DOMAIN ret.cp
====
